---- MODULE Spec2Model ----
(***************************************************************************)
(* Model of the glyph positioning and SVG writing core of allsorts-tools:  *)
(*   - calculate_glyph_positions (src/src/glyph.rs), three passes over the *)
(*     shaped glyphs: first pass, cursive pass, mark pass;                 *)
(*   - the SVG writer and its outline sink (src/src/writer.rs);            *)
(*   - the script direction table (src/src/script.rs).                     *)
(* Indices into infos/positions are 0-based as in the source; At(s, k)     *)
(* reads element k of a TLA+ sequence.                                     *)
(***************************************************************************)
EXTENDS Integers, Sequences, FiniteSets, TLC

VARIABLES
    \* ---- calculate_glyph_positions ----
    infos,                    \* &[Info]: the shaped glyphs (input)
    direction,                \* TextDirection (input)
    vertical,                 \* bool (input)
    positions,                \* Vec<GlyphPosition>, the local buffer
    has_marks,                \* bool
    has_cursive_connection,   \* bool
    pc,                       \* which loop of the function is running
    i,                        \* the loop index of the running loop
    result,                   \* the value the function returned, if it has
    \* ---- script::direction ----
    script,                   \* u32 script tag (input)
    script_direction,         \* the TextDirection returned, None before the call
    \* ---- Symbols as OutlineSink, driven by an outline builder ----
    sink,                     \* the Symbols value (transform, symbols, mode, ...)
    calls,                    \* the sink calls the builder has made so far
    \* ---- SVGWriter::glyphs_to_svg ----
    w_infos,                  \* its infos argument
    w_direction,              \* its direction argument
    builder,                  \* the outline collaborator
    writer,                   \* self: the SVGWriter (mode, transform, usage)
    glyph_positions,          \* the positions the layout returned
    iter,                     \* the glyph indices still to be iterated, in order
    pen_x,                    \* x of glyphs_to_svg_impl
    pen_y,                    \* y of glyphs_to_svg_impl
    symbol_map,               \* glyph index -> symbol index
    visited,                  \* the glyph indices visit was called with, in order
    named,                    \* the glyph indices gid_to_glyph_name was called with
    w_pc,                     \* where glyphs_to_svg is
    svg,                      \* the Result it returned, Pending before
    call_no,                  \* 1 in the first call on these arguments, 2 in the second
    first_svg,                \* what the first call returned
    \* ---- shape.rs: calculate_glyph_positions of the shape command ----
    sh_infos,                 \* &[Info] (input)
    sh_vertical,              \* bool (input)
    sh_positions,             \* Vec<(i32, i32, i32)>: (advance, x, y) pushed so far
    sh_x,                     \* x: the pen
    sh_y,                     \* y: the pen
    sh_pc,                    \* where the function is
    sh_result,                \* what it returned, or how it ended
    \* ---- subset.rs: subset_text ----
    sub_text,                 \* &str: the characters to keep (input)
    sub_result,               \* what subset_text handed to the subsetter, or its error
    \* ---- cmap.rs and main.rs: the cmap command ----
    cm_font,                  \* the font file named on the command line (input)
    cm_pc,                    \* where the command is
    cm_next,                  \* how many mappings mappings_fn has handed over
    cm_stdout,                \* the lines printed
    cm_res,                   \* what cmap::main returned
    cm_exit                   \* the exit code of the process, None while it runs

posVars == <<infos, direction, vertical, positions, has_marks,
             has_cursive_connection, pc, i, result>>
dirVars == <<script, script_direction>>

sinkVars == <<sink, calls>>

writerVars == <<w_infos, w_direction, builder, writer, glyph_positions, iter, pen_x,
                pen_y, symbol_map, visited, named, w_pc, svg, call_no, first_svg>>

shapeVars == <<sh_infos, sh_vertical, sh_positions, sh_x, sh_y, sh_pc, sh_result>>

subsetVars == <<sub_text, sub_result>>

cmapVars == <<cm_font, cm_pc, cm_next, cm_stdout, cm_res, cm_exit>>

cmdVars == <<shapeVars, subsetVars, cmapVars>>

vars == <<posVars, dirVars, sinkVars, writerVars, cmdVars>>

otherThanPositions == <<dirVars, sinkVars, writerVars, cmdVars>>
otherThanDirection == <<posVars, sinkVars, writerVars, cmdVars>>
otherThanSink == <<posVars, dirVars, writerVars, cmdVars>>
otherThanWriter == <<posVars, dirVars, cmdVars>>
otherThanShape == <<posVars, dirVars, sinkVars, writerVars, subsetVars, cmapVars>>
otherThanSubset == <<posVars, dirVars, sinkVars, writerVars, shapeVars, cmapVars>>
otherThanCmap == <<posVars, dirVars, sinkVars, writerVars, shapeVars, subsetVars>>

--------------------------------------------------------------------------
(* Bounds of the explored inputs *)

\* longest glyph run whose attachments are drawn from every kind at once
MaxGlyphs == 2
\* longest glyph run whose attachments are all cursive, or all marks
MaxRun == 3
\* most sink calls an outline builder makes on one symbol
MaxSinkCalls == 5
\* longest glyph run written as SVG
MaxWriterGlyphs == 3
\* longest glyph run positioned by the shape command
MaxShapeGlyphs == 2
\* longest text given to the subset command
MaxText == 3
\* most mappings in the cmap sub-table of a font
MaxMappings == 2

--------------------------------------------------------------------------
(* Basic values *)

None == <<>>
Some(v) == <<v>>
IsSome(o) == Len(o) = 1
Unwrap(o) == o[1]

At(s, k) == s[k + 1]
Put(s, k, v) == [s EXCEPT ![k + 1] = v]

\* vec![v; n]
RECURSIVE Repeat(_, _)
Repeat(v, n) == IF n = 0 THEN <<>> ELSE Append(Repeat(v, n - 1), v)

Anchor(x, y) == [x |-> x, y |-> y]

\* allsorts::gpos::Placement
PlacementNone == [tag |-> "None", dx |-> 0, dy |-> 0]
Distance(dx, dy) == [tag |-> "Distance", dx |-> dx, dy |-> dy]

\* allsorts::gpos::Attachment; every variant is a record of the same shape
AttachmentNone ==
    [tag |-> "None", index |-> 0, rtl_flag |-> FALSE,
     anchor1 |-> Anchor(0, 0), anchor2 |-> Anchor(0, 0)]
MarkAnchor(base_index, base_anchor, mark_anchor) ==
    [tag |-> "MarkAnchor", index |-> base_index, rtl_flag |-> FALSE,
     anchor1 |-> base_anchor, anchor2 |-> mark_anchor]
MarkOverprint(base_index) ==
    [tag |-> "MarkOverprint", index |-> base_index, rtl_flag |-> FALSE,
     anchor1 |-> Anchor(0, 0), anchor2 |-> Anchor(0, 0)]
CursiveAnchor(exit_glyph_index, rtl_flag, exit_glyph_anchor, entry_glyph_anchor) ==
    [tag |-> "CursiveAnchor", index |-> exit_glyph_index, rtl_flag |-> rtl_flag,
     anchor1 |-> exit_glyph_anchor, anchor2 |-> entry_glyph_anchor]

LeftToRight == "LeftToRight"
RightToLeft == "RightToLeft"
TextDirection == {LeftToRight, RightToLeft}

\* GlyphPosition::default() and GlyphPosition::new
GlyphPositionDefault ==
    [hori_advance |-> 0, vert_advance |-> 0, x_offset |-> 0, y_offset |-> 0,
     cursive_attachment |-> None]
GlyphPositionNew(hori_advance, vert_advance, x_offset, y_offset) ==
    [hori_advance |-> hori_advance, vert_advance |-> vert_advance,
     x_offset |-> x_offset, y_offset |-> y_offset, cursive_attachment |-> None]

\* Result<Vec<GlyphPosition>, BoxError>, and the two ways of not having one
Ok(v) == [tag |-> "Ok", value |-> Some(v), error |-> None]
Err(e) == [tag |-> "Err", value |-> None, error |-> Some(e)]
Pending == [tag |-> "Pending", value |-> None, error |-> None]
\* the process died of stack exhaustion: the function never returned
StackOverflow == [tag |-> "StackOverflow", value |-> None, error |-> None]

--------------------------------------------------------------------------
(* The font: the metrics collaborator (Font<T>) and the anchors the shaper  *)
(* read from it.  Glyph 4 has no horizontal advance, glyph 3 no vertical.   *)

GlyphIds == {1, 2, 3, 4}

horizontal_advance(glyph_index) ==
    CASE glyph_index = 1 -> Some(600)
      [] glyph_index = 2 -> Some(500)
      [] glyph_index = 3 -> Some(400)
      [] OTHER -> None

vertical_advance(glyph_index) ==
    CASE glyph_index = 1 -> Some(1000)
      [] glyph_index = 2 -> Some(900)
      [] glyph_index = 4 -> Some(950)
      [] OTHER -> None

hhea_table == [ascender |-> 800, descender |-> -200]

EntryAnchor(glyph_index) ==
    CASE glyph_index = 1 -> Anchor(30, 10)
      [] glyph_index = 2 -> Anchor(20, -5)
      [] OTHER -> Anchor(0, 0)

ExitAnchor(glyph_index) ==
    CASE glyph_index = 1 -> Anchor(100, 50)
      [] glyph_index = 2 -> Anchor(60, 40)
      [] OTHER -> Anchor(80, 20)

BaseAnchor(glyph_index) ==
    CASE glyph_index = 1 -> Anchor(300, 700)
      [] glyph_index = 2 -> Anchor(250, 650)
      [] OTHER -> Anchor(200, 500)

MarkAnchorPoint(glyph_index) ==
    CASE glyph_index = 1 -> Anchor(40, 15)
      [] glyph_index = 2 -> Anchor(-25, 35)
      [] OTHER -> Anchor(10, -20)

--------------------------------------------------------------------------
(* glyph_advance and is_upright_glyph *)

\* info.glyph.is_vert_alt || first unicode is an upright char
is_upright_glyph(info) == info.is_vert_alt \/ info.upright_char

\* mutant: a missing horizontal advance is replaced by 0 instead of failing
glyph_advance_DefaultHorizontal(info, vertical_) ==
    IF vertical_ /\ is_upright_glyph(info)
    THEN LET v == vertical_advance(info.glyph_index)
             advance ==
                 (IF IsSome(v) THEN Unwrap(v)
                  ELSE hhea_table.ascender - hhea_table.descender)
                 + info.kerning
         IN  Ok(<<0, advance>>)
    ELSE LET h == horizontal_advance(info.glyph_index)
             advance == (IF IsSome(h) THEN Unwrap(h) ELSE 0) + info.kerning
         IN  Ok(IF vertical_ THEN <<0, advance>> ELSE <<advance, 0>>)

\* Result<(i32, i32), BoxError>: Ok carries <<hori_advance, vert_advance>>
glyph_advance(info, vertical_) ==
    IF vertical_ /\ is_upright_glyph(info)
    THEN LET v == vertical_advance(info.glyph_index)
             advance ==
                 (IF IsSome(v) THEN Unwrap(v)
                  ELSE hhea_table.ascender - hhea_table.descender)
                 + info.kerning
         IN  Ok(<<0, advance>>)
    ELSE LET h == horizontal_advance(info.glyph_index)
         IN  IF IsSome(h)
             THEN LET advance == Unwrap(h) + info.kerning
                  IN  Ok(IF vertical_ THEN <<0, advance>> ELSE <<advance, 0>>)
             ELSE Err("no horizontal advance for glyph")

--------------------------------------------------------------------------
(* calculate_glyph_positions: the body of each of its three loops *)

\* infos.get(index).is_some() for a usize index
InRange(infos_, index) == index < Len(infos_)

\* match placement { None => (0, 0), Distance(dx, dy) => (dx, dy) }
PlacementOffset(placement) ==
    IF placement.tag = "Distance" THEN <<placement.dx, placement.dy>> ELSE <<0, 0>>

\* mutant: the position is pushed instead of stored at index k
FirstPassNone_Push(info, hori_advance, vert_advance, positions_, k) ==
    LET d == PlacementOffset(info.placement)
    IN  Append(positions_, GlyphPositionNew(hori_advance, vert_advance, d[1], d[2]))

\* Attachment::None arm of the first loop
FirstPassNone(info, hori_advance, vert_advance, positions_, k) ==
    LET d == PlacementOffset(info.placement)
    IN  Put(positions_, k, GlyphPositionNew(hori_advance, vert_advance, d[1], d[2]))

\* mutant: the placement of the base is left out
FirstPassMarkAnchor_NoPlacement(infos_, info, hori_advance, vert_advance, positions_, k) ==
    LET att == info.attachment
        offset_x == att.anchor1.x - att.anchor2.x
        offset_y == att.anchor1.y - att.anchor2.y
    IN  Put(positions_, k,
            GlyphPositionNew(hori_advance, vert_advance, offset_x, offset_y))

\* Attachment::MarkAnchor arm of the first loop, base in range
FirstPassMarkAnchor(infos_, info, hori_advance, vert_advance, positions_, k) ==
    LET att == info.attachment
        d == PlacementOffset(At(infos_, att.index).placement)
        offset_x == att.anchor1.x - att.anchor2.x + d[1]
        offset_y == att.anchor1.y - att.anchor2.y + d[2]
    IN  Put(positions_, k,
            GlyphPositionNew(hori_advance, vert_advance, offset_x, offset_y))

\* mutant: the link stored on the exit glyph is not the index of a glyph
FirstPassCursive_LinkPastEnd(info, hori_advance, vert_advance, positions_, k) ==
    LET exit_glyph_index == info.attachment.index
        linked == Put(positions_, exit_glyph_index,
                      [At(positions_, exit_glyph_index)
                          EXCEPT !.cursive_attachment = Some(k + Len(positions_))])
    IN  Put(linked, k,
            [At(linked, k) EXCEPT !.hori_advance = hori_advance,
                                  !.vert_advance = vert_advance])

\* Attachment::CursiveAnchor arm of the first loop, exit glyph in range
FirstPassCursive(info, hori_advance, vert_advance, positions_, k) ==
    LET exit_glyph_index == info.attachment.index
        linked == Put(positions_, exit_glyph_index,
                      [At(positions_, exit_glyph_index)
                          EXCEPT !.cursive_attachment = Some(k)])
    IN  Put(linked, k,
            [At(linked, k) EXCEPT !.hori_advance = hori_advance,
                                  !.vert_advance = vert_advance])

\* mutant: the base index of a MarkOverprint is not validated
FirstPassOverprint_NoCheck(infos_, att, st) == [st EXCEPT !.has_marks = TRUE]

\* Attachment::MarkOverprint arm of the first loop: only validates the index
FirstPassOverprint(infos_, att, st) ==
    IF InRange(infos_, att.index)
    THEN [st EXCEPT !.has_marks = TRUE]
    ELSE [st EXCEPT !.has_marks = TRUE, !.error = Some("BadIndex")]

\* One iteration of the first loop on the frame
\* st = [positions, has_marks, has_cursive_connection, error]
FirstPassBody(infos_, vertical_, st, k) ==
    LET info == At(infos_, k)
        adv == glyph_advance(info, vertical_)
        att == info.attachment
    IN  IF adv.tag = "Err" THEN [st EXCEPT !.error = adv.error]
        ELSE
        LET hori_advance == Unwrap(adv.value)[1]
            vert_advance == Unwrap(adv.value)[2]
        IN  CASE att.tag = "None" ->
                  [st EXCEPT !.positions =
                      FirstPassNone(info, hori_advance, vert_advance, @, k)]
              [] att.tag = "MarkAnchor" ->
                  IF InRange(infos_, att.index)
                  THEN [st EXCEPT !.has_marks = TRUE,
                                  !.positions = FirstPassMarkAnchor(
                                      infos_, info, hori_advance, vert_advance, @, k)]
                  ELSE [st EXCEPT !.has_marks = TRUE, !.error = Some("BadIndex")]
              [] att.tag = "MarkOverprint" -> FirstPassOverprint(infos_, att, st)
              [] att.tag = "CursiveAnchor" ->
                  IF InRange(infos_, att.index)
                  THEN [st EXCEPT !.has_cursive_connection = TRUE,
                                  !.positions = FirstPassCursive(
                                      info, hori_advance, vert_advance, @, k)]
                  ELSE [st EXCEPT !.has_cursive_connection = TRUE,
                                  !.error = Some("BadIndex")]

\* The first loop run to its end, or to its first error
RECURSIVE FirstPassFold(_, _, _, _)
FirstPassFold(infos_, vertical_, st, k) ==
    IF k >= Len(infos_) \/ IsSome(st.error) THEN st
    ELSE FirstPassFold(infos_, vertical_, FirstPassBody(infos_, vertical_, st, k), k + 1)

FirstPassResult(infos_, vertical_) ==
    FirstPassFold(infos_, vertical_,
        [positions |-> Repeat(GlyphPositionDefault, Len(infos_)),
         has_marks |-> FALSE, has_cursive_connection |-> FALSE, error |-> None], 0)

\* Whether following cursive_attachment links from index never ends: the
\* recursion of adjust_cursive_chain has no cycle guard, so it then runs
\* until the stack is exhausted.
RECURSIVE ChainIsCyclic(_, _, _)
ChainIsCyclic(index, positions_, hops) ==
    LET link == At(positions_, index).cursive_attachment
    IN  IF ~IsSome(link) THEN FALSE
        ELSE IF hops >= Len(positions_) THEN TRUE
        ELSE ChainIsCyclic(Unwrap(link), positions_, hops + 1)

RECURSIVE adjust_cursive_chain(_, _, _)
adjust_cursive_chain(delta, index, positions_) ==
    LET moved == Put(positions_, index,
                     [At(positions_, index) EXCEPT !.y_offset = @ + delta])
        next_index == At(moved, index).cursive_attachment
    IN  IF IsSome(next_index)
        THEN adjust_cursive_chain(delta, Unwrap(next_index), moved)
        ELSE moved

\* mutant: the entry anchor is applied to both advances
CursiveLineAdjust_BothAxes(direction_, entry_glyph_anchor, positions_, first_glyph_index) ==
    Put(positions_, first_glyph_index,
        [At(positions_, first_glyph_index) EXCEPT
            !.hori_advance = IF direction_ = LeftToRight
                             THEN entry_glyph_anchor.x
                             ELSE @ + entry_glyph_anchor.x,
            !.vert_advance = @ + entry_glyph_anchor.y])

\* Line-layout direction: the advance of the first glyph in logical order
CursiveLineAdjust(direction_, entry_glyph_anchor, positions_, first_glyph_index) ==
    Put(positions_, first_glyph_index,
        [At(positions_, first_glyph_index) EXCEPT !.hori_advance =
            IF direction_ = LeftToRight
            THEN entry_glyph_anchor.x
            ELSE @ + entry_glyph_anchor.x])

\* mutant: the RIGHT_TO_LEFT flag is read the wrong way round
CursiveShifted_Swapped(rtl_flag, first_glyph_index, second_glyph_index) ==
    IF rtl_flag THEN second_glyph_index ELSE first_glyph_index

\* Cross-stream direction: which glyph of the pair is shifted, and the other
CursiveShifted(rtl_flag, first_glyph_index, second_glyph_index) ==
    IF rtl_flag THEN first_glyph_index ELSE second_glyph_index

\* mutant: the shifted glyph's own offset is added instead of the other's
CursiveOther_Self(rtl_flag, first_glyph_index, second_glyph_index) ==
    IF rtl_flag THEN first_glyph_index ELSE second_glyph_index

CursiveOther(rtl_flag, first_glyph_index, second_glyph_index) ==
    IF rtl_flag THEN second_glyph_index ELSE first_glyph_index

\* One iteration of the second loop: [positions, overflow]
CursivePassBody(infos_, direction_, positions_, k) ==
    LET att == At(infos_, k).attachment
    IN  IF att.tag # "CursiveAnchor"
        THEN [positions |-> positions_, overflow |-> FALSE]
        ELSE
        LET exit_glyph_index == att.index
            first_glyph_index == IF k < exit_glyph_index THEN k ELSE exit_glyph_index
            second_glyph_index == IF k < exit_glyph_index THEN exit_glyph_index ELSE k
            lined == CursiveLineAdjust(direction_, att.anchor2, positions_,
                                       first_glyph_index)
            dy == att.anchor1.y - att.anchor2.y
            target == CursiveShifted(att.rtl_flag, first_glyph_index, second_glyph_index)
            other == CursiveOther(att.rtl_flag, first_glyph_index, second_glyph_index)
            shifted == Put(lined, target,
                           [At(lined, target) EXCEPT !.y_offset =
                               @ + dy + At(lined, other).y_offset])
            linked_index == At(shifted, target).cursive_attachment
        IN  IF ~IsSome(linked_index)
            THEN [positions |-> shifted, overflow |-> FALSE]
            ELSE IF ChainIsCyclic(Unwrap(linked_index), shifted, 0)
            THEN [positions |-> shifted, overflow |-> TRUE]
            ELSE [positions |-> adjust_cursive_chain(dy, Unwrap(linked_index), shifted),
                  overflow |-> FALSE]

\* mutant: a range that ends beyond the array is cut at the end of the array
SliceGet_Clamped(positions_, from, to) ==
    IF from <= to
    THEN Some(SubSeq(positions_, from + 1, IF to <= Len(positions_) THEN to ELSE Len(positions_)))
    ELSE None

\* positions.get(from..to): None when from > to or to > len
SliceGet(positions_, from, to) ==
    IF from <= to /\ to <= Len(positions_)
    THEN Some(SubSeq(positions_, from + 1, to))
    ELSE None

RECURSIVE SumFold(_, _)
SumFold(p, acc) ==
    IF p = <<>> THEN acc
    ELSE SumFold(Tail(p), <<acc[1] + Head(p).hori_advance,
                            acc[2] + Head(p).vert_advance>>)

sum_advance(slice) ==
    IF IsSome(slice) THEN SumFold(Unwrap(slice), <<0, 0>>) ELSE <<0, 0>>

\* mutant: the advance of the base is left out of the LeftToRight sum
MarkPassAnchor_WithoutBase(direction_, positions_, k, base_index) ==
    LET base_pos == At(positions_, base_index)
        offset == IF direction_ = LeftToRight
                  THEN sum_advance(SliceGet(positions_, base_index + 1, k))
                  ELSE sum_advance(SliceGet(positions_, k, base_index))
        sign == IF direction_ = LeftToRight THEN -1 ELSE 1
    IN  Put(positions_, k,
            [At(positions_, k) EXCEPT
                !.x_offset = @ + base_pos.x_offset + sign * offset[1],
                !.y_offset = @ + base_pos.y_offset + sign * offset[2]])

\* Attachment::MarkAnchor arm of the third loop
MarkPassAnchor(direction_, positions_, k, base_index) ==
    LET base_pos == At(positions_, base_index)
        offset == IF direction_ = LeftToRight
                  THEN sum_advance(SliceGet(positions_, base_index, k))
                  ELSE sum_advance(SliceGet(positions_, k, base_index))
        sign == IF direction_ = LeftToRight THEN -1 ELSE 1
    IN  Put(positions_, k,
            [At(positions_, k) EXCEPT
                !.x_offset = @ + base_pos.x_offset + sign * offset[1],
                !.y_offset = @ + base_pos.y_offset + sign * offset[2]])

\* mutant: only the x offset of the base is copied
MarkPassOverprint_OnlyX(positions_, k, base_index) ==
    LET base_pos == At(positions_, base_index)
    IN  Put(positions_, k, [At(positions_, k) EXCEPT !.x_offset = base_pos.x_offset])

\* Attachment::MarkOverprint arm of the third loop
MarkPassOverprint(positions_, k, base_index) ==
    LET base_pos == At(positions_, base_index)
    IN  Put(positions_, k,
            [At(positions_, k) EXCEPT !.x_offset = base_pos.x_offset,
                                      !.y_offset = base_pos.y_offset])

\* mutant: the third loop clears the offset of every glyph that is no mark
MarkPassBody_ClearsOthers(infos_, direction_, positions_, k) ==
    LET att == At(infos_, k).attachment
    IN  CASE att.tag = "MarkAnchor" ->
                MarkPassAnchor(direction_, positions_, k, att.index)
          [] att.tag = "MarkOverprint" ->
                MarkPassOverprint(positions_, k, att.index)
          [] OTHER -> Put(positions_, k,
                          [At(positions_, k) EXCEPT !.x_offset = 0, !.y_offset = 0])

\* One iteration of the third loop
MarkPassBody(infos_, direction_, positions_, k) ==
    LET att == At(infos_, k).attachment
    IN  CASE att.tag = "MarkAnchor" ->
                MarkPassAnchor(direction_, positions_, k, att.index)
          [] att.tag = "MarkOverprint" ->
                MarkPassOverprint(positions_, k, att.index)
          [] OTHER -> positions_

\* The second and third loops run to their ends
RECURSIVE CursivePassFold(_, _, _, _)
CursivePassFold(infos_, direction_, st, k) ==
    IF k >= Len(infos_) \/ st.overflow THEN st
    ELSE CursivePassFold(infos_, direction_,
            CursivePassBody(infos_, direction_, st.positions, k), k + 1)

RECURSIVE MarkPassFold(_, _, _, _)
MarkPassFold(infos_, direction_, positions_, k) ==
    IF k >= Len(infos_) THEN positions_
    ELSE MarkPassFold(infos_, direction_,
            MarkPassBody(infos_, direction_, positions_, k), k + 1)

\* calculate_glyph_positions from entry to return
calculate_glyph_positions(infos_, direction_, vertical_) ==
    LET first == FirstPassResult(infos_, vertical_)
        cursive == IF first.has_cursive_connection
                   THEN CursivePassFold(infos_, direction_,
                            [positions |-> first.positions, overflow |-> FALSE], 0)
                   ELSE [positions |-> first.positions, overflow |-> FALSE]
    IN  IF IsSome(first.error) THEN Err(Unwrap(first.error))
        ELSE IF cursive.overflow THEN StackOverflow
        ELSE IF first.has_marks
        THEN Ok(MarkPassFold(infos_, direction_, cursive.positions, 0))
        ELSE Ok(cursive.positions)

--------------------------------------------------------------------------
(* The shaped runs explored: the glyphs of a run come from a template (the  *)
(* text), the attachments are drawn freely.                                 *)

Templates == {"full", "sparse", "double"}

\* glyph k of a run: its index in the font, kerning, uprightness, placement
GlyphAt(t, k) ==
    [glyph_index |->
        IF t = "sparse" THEN (IF k = 0 THEN 1 ELSE 4)
        ELSE IF t = "double" THEN (IF k = 2 THEN 2 ELSE 1)
        ELSE (CASE k % 3 = 0 -> 3 [] k % 3 = 1 -> 1 [] OTHER -> 2),
     kerning |-> IF k % 2 = 1 THEN -10 ELSE 0,
     is_vert_alt |-> FALSE,
     small_caps |-> (t = "double" /\ k = 0),
     glyph_origin |-> IF t = "double" /\ k % 2 = 1 THEN "direct" ELSE "char",
     upright_char |-> IF t = "sparse" THEN k % 2 = 1 ELSE k % 2 = 0,
     placement |-> IF (k % 2 = 0) = (t = "sparse")
                   THEN Distance(7 * (k + 1), 3 * (k + 1))
                   ELSE PlacementNone]

Shape(tag, index, rtl_flag) == [tag |-> tag, index |-> index, rtl_flag |-> rtl_flag]

\* every attachment kind, every index of the run and the first index past it
MixedShapes(n) ==
    {Shape("None", 0, FALSE)}
    \cup {Shape("MarkAnchor", b, FALSE) : b \in 0..n}
    \cup {Shape("MarkOverprint", b, FALSE) : b \in 0..n}
    \cup {Shape("CursiveAnchor", e, r) : e \in 0..n, r \in BOOLEAN}

CursiveShapes(n) ==
    {Shape("None", 0, FALSE)}
    \cup {Shape("CursiveAnchor", e, r) : e \in 0..(n - 1), r \in BOOLEAN}

MarkShapes(n) ==
    {Shape("None", 0, FALSE)}
    \cup {Shape("MarkAnchor", b, FALSE) : b \in 0..(n - 1)}
    \cup {Shape("MarkOverprint", b, FALSE) : b \in 0..(n - 1)}

ShapeRuns ==
    UNION {[1..n -> MixedShapes(n)] : n \in 0..MaxGlyphs}
    \cup UNION {[1..n -> CursiveShapes(n)] : n \in 0..MaxRun}
    \cup UNION {[1..n -> MarkShapes(n)] : n \in 0..MaxRun}

\* the attachment the shaper records for glyph k, anchors read from the font
MakeAttachment(t, shape, k) ==
    CASE shape.tag = "MarkAnchor" ->
            MarkAnchor(shape.index,
                       BaseAnchor(GlyphAt(t, shape.index).glyph_index),
                       MarkAnchorPoint(GlyphAt(t, k).glyph_index))
      [] shape.tag = "MarkOverprint" -> MarkOverprint(shape.index)
      [] shape.tag = "CursiveAnchor" ->
            CursiveAnchor(shape.index, shape.rtl_flag,
                          ExitAnchor(GlyphAt(t, shape.index).glyph_index),
                          EntryAnchor(GlyphAt(t, k).glyph_index))
      [] OTHER -> AttachmentNone

MakeInfo(t, shape, k) ==
    LET g == GlyphAt(t, k)
    IN  [glyph_index |-> g.glyph_index, kerning |-> g.kerning,
         is_vert_alt |-> g.is_vert_alt, upright_char |-> g.upright_char,
         liga_component_pos |-> 0, glyph_origin |-> g.glyph_origin,
         small_caps |-> g.small_caps, multi_subst_dup |-> FALSE,
         fake_bold |-> FALSE, fake_italic |-> FALSE,
         placement |-> g.placement, attachment |-> MakeAttachment(t, shape, k)]

MakeInfos(t, shapes) == [k \in 1..Len(shapes) |-> MakeInfo(t, shapes[k], k - 1)]

--------------------------------------------------------------------------
(* calculate_glyph_positions as a state machine: one step per loop iteration *)

\* where control goes once a loop has reached index next_i
AfterFirstPass(n, next_i, cursive, marks) ==
    IF next_i < n THEN "first"
    ELSE IF cursive THEN "cursive"
    ELSE IF marks THEN "marks"
    ELSE "return"

AfterCursivePass(n, next_i, marks) ==
    IF next_i < n THEN "cursive"
    ELSE IF marks THEN "marks"
    ELSE "return"

AfterMarkPass(n, next_i) == IF next_i < n THEN "marks" ELSE "return"

InitPositions ==
    /\ \E t \in Templates, shapes \in ShapeRuns : infos = MakeInfos(t, shapes)
    /\ direction \in TextDirection
    /\ vertical \in BOOLEAN
    /\ positions = Repeat(GlyphPositionDefault, Len(infos))
    /\ has_marks = FALSE
    /\ has_cursive_connection = FALSE
    /\ pc = AfterFirstPass(Len(infos), 0, FALSE, FALSE)
    /\ i = 0
    /\ result = Pending

\* calculate_glyph_positions is not running
IdlePositions ==
    /\ infos = <<>>
    /\ direction = LeftToRight
    /\ vertical = FALSE
    /\ positions = <<>>
    /\ has_marks = FALSE
    /\ has_cursive_connection = FALSE
    /\ pc = "idle"
    /\ i = 0
    /\ result = Pending

\* for (i, info) in infos.iter().enumerate() { ... }, first loop
FirstPassStep ==
    /\ pc = "first"
    /\ LET st == FirstPassBody(infos, vertical,
                    [positions |-> positions, has_marks |-> has_marks,
                     has_cursive_connection |-> has_cursive_connection,
                     error |-> None], i)
       IN  /\ has_marks' = st.has_marks
           /\ has_cursive_connection' = st.has_cursive_connection
           /\ IF IsSome(st.error)
              THEN /\ result' = Err(Unwrap(st.error))
                   /\ positions' = <<>>
                   /\ pc' = "done"
                   /\ i' = i
              ELSE /\ result' = result
                   /\ positions' = st.positions
                   /\ pc' = AfterFirstPass(Len(infos), i + 1,
                                st.has_cursive_connection, st.has_marks)
                   /\ i' = IF i + 1 < Len(infos) THEN i + 1 ELSE 0
    /\ UNCHANGED <<infos, direction, vertical>>
    /\ UNCHANGED otherThanPositions

\* second loop, run when has_cursive_connection
CursivePassStep ==
    /\ pc = "cursive"
    /\ LET r == CursivePassBody(infos, direction, positions, i)
       IN  IF r.overflow
           THEN /\ result' = StackOverflow
                /\ positions' = <<>>
                /\ pc' = "done"
                /\ i' = i
           ELSE /\ result' = result
                /\ positions' = r.positions
                /\ pc' = AfterCursivePass(Len(infos), i + 1, has_marks)
                /\ i' = IF i + 1 < Len(infos) THEN i + 1 ELSE 0
    /\ UNCHANGED <<infos, direction, vertical, has_marks, has_cursive_connection>>
    /\ UNCHANGED otherThanPositions

\* third loop, run when has_marks
MarkPassStep ==
    /\ pc = "marks"
    /\ positions' = MarkPassBody(infos, direction, positions, i)
    /\ pc' = AfterMarkPass(Len(infos), i + 1)
    /\ i' = IF i + 1 < Len(infos) THEN i + 1 ELSE 0
    /\ UNCHANGED <<infos, direction, vertical, has_marks, has_cursive_connection,
                   result>>
    /\ UNCHANGED otherThanPositions

\* Ok(positions)
Return ==
    /\ pc = "return"
    /\ result' = Ok(positions)
    /\ positions' = <<>>
    /\ pc' = "done"
    /\ UNCHANGED <<infos, direction, vertical, has_marks, has_cursive_connection, i>>
    /\ UNCHANGED otherThanPositions

NextPositions == FirstPassStep \/ CursivePassStep \/ MarkPassStep \/ Return

--------------------------------------------------------------------------
(* script::direction *)

\* the bytes of the characters that occur in the tags used here
Letters == <<"a", "b", "c", "d", "e", "f", "g", "h", "i", "j", "k", "l", "m",
             "n", "o", "p", "q", "r", "s", "t", "u", "v", "w", "x", "y", "z">>
Capitals == <<"A", "B", "C", "D", "E", "F", "G", "H", "I", "J", "K", "L", "M",
              "N", "O", "P", "Q", "R", "S", "T", "U", "V", "W", "X", "Y", "Z">>
Byte(c) ==
    IF c = " " THEN 32
    ELSE IF c = "?" THEN 63
    ELSE IF \E k \in 1..26 : Letters[k] = c
    THEN 96 + (CHOOSE k \in 1..26 : Letters[k] = c)
    ELSE 64 + (CHOOSE k \in 1..26 : Capitals[k] = c)

\* allsorts::tag!(b"abcd"): the four bytes read as a big-endian u32.  A u32 is
\* kept as its four bytes, most significant first, so that the whole range
\* 0 .. 2^32 - 1 is representable.
tag(b) == <<Byte(b[1]), Byte(b[2]), Byte(b[3]), Byte(b[4])>>

\* mod rtl_tags
rtl ==
    [ARAB |-> tag(<<"a", "r", "a", "b">>),
     HEBR |-> tag(<<"h", "e", "b", "r">>),
     SYRC |-> tag(<<"s", "y", "r", "c">>),
     THAA |-> tag(<<"t", "h", "a", "a">>),
     CPRT |-> tag(<<"c", "p", "r", "t">>),
     KHAR |-> tag(<<"k", "h", "a", "r">>),
     PHNX |-> tag(<<"p", "h", "n", "x">>),
     NKO |-> tag(<<"n", "k", "o", " ">>),
     LYDI |-> tag(<<"l", "y", "d", "i">>),
     AVST |-> tag(<<"a", "v", "s", "t">>),
     ARMI |-> tag(<<"a", "r", "m", "i">>),
     PHLI |-> tag(<<"p", "h", "l", "i">>),
     PRTI |-> tag(<<"p", "r", "t", "i">>),
     SARB |-> tag(<<"s", "a", "r", "b">>),
     ORKH |-> tag(<<"o", "r", "k", "h">>),
     SAMR |-> tag(<<"s", "a", "m", "r">>),
     MAND |-> tag(<<"m", "a", "n", "d">>),
     MERC |-> tag(<<"m", "e", "r", "c">>),
     MERO |-> tag(<<"m", "e", "r", "o">>),
     MANI |-> tag(<<"m", "a", "n", "i">>),
     MEND |-> tag(<<"m", "e", "n", "d">>),
     NBAT |-> tag(<<"n", "b", "a", "t">>),
     NARB |-> tag(<<"n", "a", "r", "b">>),
     PALM |-> tag(<<"p", "a", "l", "m">>),
     PHLP |-> tag(<<"p", "h", "l", "p">>)]

\* mutant: the arm for N'Ko is missing from the match
direction_WithoutNko(script_) ==
    IF script_ \in {rtl.ARAB, rtl.HEBR, rtl.SYRC, rtl.THAA, rtl.CPRT,
                    rtl.KHAR, rtl.PHNX, rtl.LYDI, rtl.AVST, rtl.ARMI,
                    rtl.PHLI, rtl.PRTI, rtl.SARB, rtl.ORKH, rtl.SAMR,
                    rtl.MAND, rtl.MERC, rtl.MERO, rtl.MANI, rtl.MEND,
                    rtl.NBAT, rtl.NARB, rtl.PALM, rtl.PHLP}
    THEN RightToLeft
    ELSE LeftToRight

\* match script { rtl::ARAB | ... | rtl::PHLP => RightToLeft, _ => LeftToRight }
direction_of(script_) ==
    IF script_ \in {rtl.ARAB, rtl.HEBR, rtl.SYRC, rtl.THAA, rtl.CPRT,
                    rtl.KHAR, rtl.PHNX, rtl.NKO, rtl.LYDI, rtl.AVST,
                    rtl.ARMI, rtl.PHLI, rtl.PRTI, rtl.SARB, rtl.ORKH,
                    rtl.SAMR, rtl.MAND, rtl.MERC, rtl.MERO, rtl.MANI,
                    rtl.MEND, rtl.NBAT, rtl.NARB, rtl.PALM, rtl.PHLP}
    THEN RightToLeft
    ELSE LeftToRight

\* the bytes of a u32 in the opposite order
SwapBytes(t) == <<t[4], t[3], t[2], t[1]>>

\* the u32 one above and one below (the tags used never carry or borrow
\* beyond the lowest byte)
Succ32(t) == [t EXCEPT ![4] = (@ + 1) % 256]
Pred32(t) == [t EXCEPT ![4] = (@ + 255) % 256]

RtlTags == {rtl[name] : name \in DOMAIN rtl}

\* the tags explored: the right-to-left ones, their neighbours in value and
\* in byte order, other scripts, unknown tags and the ends of the u32 range
ScriptTags ==
    RtlTags
    \cup {Succ32(t) : t \in RtlTags}
    \cup {Pred32(t) : t \in RtlTags}
    \cup {SwapBytes(t) : t \in RtlTags}
    \cup {tag(<<"l", "a", "t", "n">>), tag(<<"c", "y", "r", "l">>),
          tag(<<"g", "r", "e", "k">>), tag(<<"D", "F", "L", "T">>),
          tag(<<"h", "a", "n", "i">>), tag(<<"d", "e", "v", "a">>),
          tag(<<"?", "?", "?", "?">>), tag(<<"A", "R", "A", "B">>),
          tag(<<"A", "r", "a", "b">>), tag(<<"n", "k", "o", "o">>),
          tag(<<" ", "n", "k", "o">>), <<0, 0, 0, 0>>,
          <<255, 255, 255, 255>>, <<0, 0, 0, 32>>, <<110, 107, 111, 0>>}

InitDirection ==
    /\ script \in ScriptTags
    /\ script_direction = None

IdleDirection ==
    /\ script = <<0, 0, 0, 0>>
    /\ script_direction = None

\* let direction = script::direction(script);
Direction ==
    /\ script_direction = None
    /\ script_direction' = Some(direction_of(script))
    /\ UNCHANGED script
    /\ UNCHANGED otherThanDirection

NextDirection == Direction

--------------------------------------------------------------------------
(* Numbers: f32 values are kept as exact fractions [n, d], d > 0, in lowest *)
(* terms; the values met here are exactly representable.                    *)

RECURSIVE GCD(_, _)
GCD(a, b) == IF b = 0 THEN a ELSE GCD(b, a % b)
Abs(a) == IF a < 0 THEN -a ELSE a

Rat(n, d) ==
    LET g == GCD(Abs(n), Abs(d))
        sign == IF d < 0 THEN -1 ELSE 1
    IN  IF n = 0 THEN [n |-> 0, d |-> 1]
        ELSE [n |-> sign * (n \div g), d |-> sign * (d \div g)]
RatInt(a) == [n |-> a, d |-> 1]
RatMul(a, b) == Rat(a.n * b.n, a.d * b.d)
RatAdd(a, b) == Rat(a.n * b.d + b.n * a.d, a.d * b.d)
RatNeg(a) == [n |-> -a.n, d |-> a.d]
RatAbs(a) == [n |-> Abs(a.n), d |-> a.d]

\* `v as i32` for an f32: the fraction is dropped, towards zero
AsI32(r) == IF r.n >= 0 THEN r.n \div r.d ELSE -((-r.n) \div r.d)

\* f32::round: to the nearest integer, halves away from zero
Round(r) ==
    IF r.n >= 0 THEN (2 * r.n + r.d) \div (2 * r.d)
    ELSE -((2 * (-r.n) + r.d) \div (2 * r.d))

\* Matrix2x2F::from_scale(vec2f(sx, sy)) applied to a point of integers
Vec(x, y) == [x |-> x, y |-> y]
FromScale(sx, sy) == [sx |-> sx, sy |-> sy]
Apply(transform, point) ==
    Vec(RatMul(transform.sx, point.x), RatMul(transform.sy, point.y))
VecInt(x, y) == Vec(RatInt(x), RatInt(y))
\* Matrix2x2F::extract_scale: the lengths of the columns
ExtractScale(transform) == Vec(RatAbs(transform.sx), RatAbs(transform.sy))
IsFlipped(transform) == transform.sy.n < 0

\* scale = 1 unflipped, and scale = 1/2 flipped (svg.rs: FONT_SIZE / units_per_em)
Transforms == {FromScale(RatInt(1), RatInt(1)), FromScale(Rat(1, 2), Rat(-1, 2))}

--------------------------------------------------------------------------
(* SVGMode, Symbol, Symbols and the OutlineSink implementation *)

NoMargin == [top |-> 0, right |-> 0, bottom |-> 0, left |-> 0]
TextRenderingTests(id_prefix) ==
    [tag |-> "TextRenderingTests", id_prefix |-> id_prefix, mark_origin |-> FALSE,
     margin |-> NoMargin, fg |-> None, bg |-> None]
View(mark_origin, margin, fg, bg) ==
    [tag |-> "View", id_prefix |-> "", mark_origin |-> mark_origin,
     margin |-> margin, fg |-> fg, bg |-> bg]
IsTests(mode) == mode.tag = "TextRenderingTests"

\* Symbol::new
SymbolNew(glyph_name, info) ==
    [glyph_name |-> glyph_name, path |-> <<>>, info |-> info, origin |-> None]

\* Symbols { transform, symbols: Vec::new(), mode, initial_move_to: zero, last_line_to: None }
SymbolsNew(transform, mode) ==
    [transform |-> transform, symbols |-> <<>>, mode |-> mode,
     initial_move_to |-> <<0, 0>>, last_line_to |-> None]

\* Symbols::new_glyph
new_glyph(symbols_, glyph_name, info) ==
    [symbols_ EXCEPT !.symbols = Append(@, SymbolNew(glyph_name, info))]

\* self.symbols.last_mut().unwrap().path
current_path(symbols_) == symbols_.symbols[Len(symbols_.symbols)].path
PushStr(symbols_, token) ==
    [symbols_ EXCEPT !.symbols[Len(symbols_.symbols)].path = Append(@, token)]

\* One path command as written into the path string: " M{},{}", " L{},{}",
\* " Q{},{} {},{}", " C{},{} {},{} {},{}", " Z".  The numbers are i32 in
\* TextRenderingTests mode and f32 in View mode.
Token(op, args) == [op |-> op, args |-> args]
Vector2I(v) == <<AsI32(v.x), AsI32(v.y)>>
FormatI(v) == <<RatInt(AsI32(v.x)), RatInt(AsI32(v.y))>>
FormatF(v) == <<v.x, v.y>>
Format(mode, v) == IF IsTests(mode) THEN FormatI(v) ELSE FormatF(v)

move_to(symbols_, point) ==
    LET pt == Apply(symbols_.transform, point)
        tracked == IF IsTests(symbols_.mode)
                   THEN [symbols_ EXCEPT !.initial_move_to = Vector2I(pt),
                                         !.last_line_to = None]
                   ELSE symbols_
    IN  PushStr(tracked, Token("M", Format(symbols_.mode, pt)))

line_to(symbols_, point) ==
    LET pt == Apply(symbols_.transform, point)
        tracked == IF IsTests(symbols_.mode)
                   THEN [symbols_ EXCEPT !.last_line_to = Some(Vector2I(pt))]
                   ELSE symbols_
    IN  PushStr(tracked, Token("L", Format(symbols_.mode, pt)))

quadratic_curve_to(symbols_, control, point) ==
    LET c == Apply(symbols_.transform, control)
        pt == Apply(symbols_.transform, point)
        tracked == IF IsTests(symbols_.mode)
                   THEN [symbols_ EXCEPT !.last_line_to = None]
                   ELSE symbols_
    IN  PushStr(tracked,
            Token("Q", Format(symbols_.mode, c) \o Format(symbols_.mode, pt)))

cubic_curve_to(symbols_, ctrl_from, ctrl_to, to) ==
    LET cf == Apply(symbols_.transform, ctrl_from)
        ct == Apply(symbols_.transform, ctrl_to)
        pt == Apply(symbols_.transform, to)
        tracked == IF IsTests(symbols_.mode)
                   THEN [symbols_ EXCEPT !.last_line_to = None]
                   ELSE symbols_
    IN  PushStr(tracked,
            Token("C", Format(symbols_.mode, cf) \o Format(symbols_.mode, ct)
                       \o Format(symbols_.mode, pt)))

\* str::rfind(" L"): the position of the last line-to command, 0 if none
RFindLineTo(path) ==
    IF \E k \in 1..Len(path) : path[k].op = "L"
    THEN CHOOSE k \in 1..Len(path) :
            path[k].op = "L" /\ \A j \in (k + 1)..Len(path) : path[j].op # "L"
    ELSE 0

\* String::truncate(m_pos): everything from the command at m_pos on is dropped
Truncate(symbols_, m_pos) ==
    [symbols_ EXCEPT !.symbols[Len(symbols_.symbols)].path = SubSeq(@, 1, m_pos - 1)]

\* mutant: close never suppresses the last line-to
close_NeverSuppress(symbols_) == PushStr(symbols_, Token("Z", <<>>))

close(symbols_) ==
    LET suppress ==
            /\ IsTests(symbols_.mode)
            /\ symbols_.last_line_to = Some(symbols_.initial_move_to)
            /\ RFindLineTo(current_path(symbols_)) # 0
        kept == IF suppress
                THEN Truncate(symbols_, RFindLineTo(current_path(symbols_)))
                ELSE symbols_
    IN  PushStr(kept, Token("Z", <<>>))

\* a sink call as the builder makes it, and its effect
Call(op, pts) == [op |-> op, pts |-> pts]
ApplyCall(symbols_, call) ==
    CASE call.op = "move_to" -> move_to(symbols_, call.pts[1])
      [] call.op = "line_to" -> line_to(symbols_, call.pts[1])
      [] call.op = "quadratic_curve_to" ->
            quadratic_curve_to(symbols_, call.pts[1], call.pts[2])
      [] call.op = "cubic_curve_to" ->
            cubic_curve_to(symbols_, call.pts[1], call.pts[2], call.pts[3])
      [] OTHER -> close(symbols_)

--------------------------------------------------------------------------
(* The sink driven by an arbitrary outline builder: any sequence of at most *)
(* MaxSinkCalls calls on one symbol                                         *)

MovePoints == {VecInt(0, 0), VecInt(3, 1)}
LinePoints == {VecInt(0, 0), VecInt(3, 1), VecInt(2, 1)}
ControlPoint == VecInt(1, 4)
SinkModes == {TextRenderingTests("t"), View(FALSE, NoMargin, None, None)}

\* the info of the one glyph whose outline is drawn
SinkInfo == MakeInfo("full", Shape("None", 0, FALSE), 1)

InitSink ==
    /\ \E transform \in Transforms, mode \in SinkModes :
          sink = new_glyph(SymbolsNew(transform, mode), "gid1", SinkInfo)
    /\ calls = <<>>

IdleSink ==
    /\ sink = SymbolsNew(FromScale(RatInt(1), RatInt(1)), TextRenderingTests(""))
    /\ calls = <<>>

SinkCall(call) ==
    /\ Len(sink.symbols) = 1
    /\ Len(calls) < MaxSinkCalls
    /\ sink' = ApplyCall(sink, call)
    /\ calls' = Append(calls, call)
    /\ UNCHANGED otherThanSink

MoveTo == \E point \in MovePoints : SinkCall(Call("move_to", <<point>>))
LineTo == \E point \in LinePoints : SinkCall(Call("line_to", <<point>>))
QuadraticCurveTo ==
    \E point \in {VecInt(3, 1)} :
        SinkCall(Call("quadratic_curve_to", <<ControlPoint, point>>))
CubicCurveTo ==
    \E to \in {VecInt(0, 0)} :
        SinkCall(Call("cubic_curve_to", <<ControlPoint, ControlPoint, to>>))
Close == SinkCall(Call("close", <<>>))

NextSink == MoveTo \/ LineTo \/ QuadraticCurveTo \/ CubicCurveTo \/ Close

--------------------------------------------------------------------------
(* SVGWriter and its collaborators *)

\* Margin and Colour
Margin(top, right, bottom, left) ==
    [top |-> top, right |-> right, bottom |-> bottom, left |-> left]
Colour(r, g, b, a) == [r |-> r, g |-> g, b |-> b, a |-> a]

\* SVGWriter::new
SVGWriterNew(mode, transform) ==
    [mode |-> mode, transform |-> transform, usage |-> <<>>]

\* The outline collaborator (OutlineBuilder + GlyphName): whether it knows
\* glyph names, and the glyph whose outline it fails to extract, if any
Builder(names, failing) == [names |-> names, failing |-> failing]

\* the names in the font's post table; glyphs 1 and 3 carry the same name
PostName(glyph_index) ==
    CASE glyph_index = 1 -> "l"
      [] glyph_index = 2 -> "acutecomb"
      [] glyph_index = 3 -> "l"
      [] OTHER -> "x"

gid_to_glyph_name(builder_, glyph_index) ==
    IF builder_.names THEN Some(PostName(glyph_index)) ELSE None

\* the sink calls the collaborator makes for a glyph: glyph 1 is a triangle
\* drawn back to its start, glyph 2 a curve, the others have no contours
Outline(glyph_index) ==
    CASE glyph_index = 1 ->
            <<Call("move_to", <<VecInt(0, 0)>>), Call("line_to", <<VecInt(3, 1)>>),
              Call("line_to", <<VecInt(2, 1)>>), Call("line_to", <<VecInt(0, 0)>>),
              Call("close", <<>>)>>
      [] glyph_index = 2 ->
            <<Call("move_to", <<VecInt(3, 1)>>),
              Call("quadratic_curve_to", <<ControlPoint, VecInt(3, 1)>>),
              Call("close", <<>>)>>
      [] OTHER -> <<>>

RECURSIVE ApplyCalls(_, _)
ApplyCalls(symbols_, cs) ==
    IF cs = <<>> THEN symbols_
    ELSE ApplyCalls(ApplyCall(symbols_, Head(cs)), Tail(cs))

\* what a failing visit has drawn before it fails
Partial(cs) == IF cs = <<>> THEN <<>> ELSE <<Head(cs)>>

\* builder.visit(glyph_index, tuple, &mut symbols)
visit(builder_, glyph_index, symbols_) ==
    IF builder_.failing = Some(glyph_index)
    THEN [symbols |-> ApplyCalls(symbols_, Partial(Outline(glyph_index))),
          made |-> Partial(Outline(glyph_index)),
          error |-> Some("outline")]
    ELSE [symbols |-> ApplyCalls(symbols_, Outline(glyph_index)),
          made |-> Outline(glyph_index),
          error |-> None]

\* mutant: the lookup never finds the glyph index
MapGet_AlwaysMiss(map, key) == None

\* HashMap<u16, usize>: get and insert
MapGet(map, key) == IF key \in DOMAIN map THEN Some(map[key]) ELSE None
MapInsert(map, key, value) ==
    [k \in (DOMAIN map) \cup {key} |-> IF k = key THEN value ELSE map[k]]

\* SVGWriter::use_glyph
use_glyph(self, symbol_index, x_, y_) ==
    [self EXCEPT !.usage =
        Append(@, <<symbol_index, Apply(self.transform, VecInt(x_, y_))>>)]

\* SVGWriter::annotate, margin, fg_colour, bg_colour
annotate(self) == self.mode.tag = "View" /\ self.mode.mark_origin
margin(self) == IF IsTests(self.mode) THEN NoMargin ELSE self.mode.margin
fg_colour(self) == IF IsTests(self.mode) THEN None ELSE self.mode.fg
bg_colour(self) == IF IsTests(self.mode) THEN None ELSE self.mode.bg

\* Symbols::annotate -> Symbol::annotate
symbols_annotate(symbols_, index, x_, y_) ==
    [symbols_ EXCEPT !.symbols[index + 1].origin = Some(VecInt(x_, y_))]

\* Symbol::id
id(symbol, mode) ==
    IF IsTests(mode) THEN mode.id_prefix \o "." \o symbol.glyph_name
    ELSE symbol.glyph_name

\* Symbol::data: the entries of the map, in the order they are inserted
Entry(present, key, value) == IF present THEN <<<<key, value>>>> ELSE <<>>
data(symbol, mode) ==
    IF IsTests(mode) THEN <<>>
    ELSE Entry(symbol.info.attachment.tag \in {"MarkAnchor", "MarkOverprint"},
               "data-mark", "true")
         \o Entry(TRUE, "data-glyph-index", ToString(symbol.info.glyph_index))
         \o Entry(TRUE, "data-liga-component-pos",
                  ToString(symbol.info.liga_component_pos))
         \o Entry(TRUE, "data-glyph-origin", symbol.info.glyph_origin)
         \o Entry(symbol.info.small_caps, "data-small-caps", "true")
         \o Entry(symbol.info.multi_subst_dup, "data-multi-subst-dup", "true")
         \o Entry(symbol.info.is_vert_alt, "data-is-vert-alt", "true")
         \o Entry(symbol.info.fake_bold, "data-fake-bold", "true")
         \o Entry(symbol.info.fake_italic, "data-fake-italic", "true")

\* Iterating a std HashMap: the order follows the hashes of the keys under
\* the map's RandomState, whose keys are drawn at random once per thread and
\* stepped for every map created.  The orders are stood for by the rotations
\* of the insertion order; state_keys names the one this map has.
HashSeeds == 0..2
HashMapIter(entries, state_keys) ==
    LET n == Len(entries)
    IN  [k \in 1..n |-> entries[((k - 1 + state_keys) % n) + 1]]

\* An XML document as xmlwriter is asked to write it: elements with their
\* attributes in writing order.  Attribute values: text, numbers, path data.
Str(s_) == [kind |-> "str", s |-> s_, n |-> <<>>]
Num(r) == [kind |-> "num", s |-> "", n |-> <<r>>]
PathData(tokens) == [kind |-> "path", s |-> "", n |-> tokens]
Attr(key, value) == <<key, value>>
Element(name, attrs, children) ==
    [name |-> name, attrs |-> attrs, children |-> children]

\* Display for Colour: "#rrggbb"; Colour::opacity
ColourText(colour) ==
    [kind |-> "colour", s |-> "#",
     n |-> <<RatInt(colour.r), RatInt(colour.g), RatInt(colour.b)>>]
opacity(colour) == Rat(colour.a, 255)
FillAttrs(colour) ==
    <<Attr("fill", ColourText(colour))>>
    \o (IF opacity(colour) # RatInt(1)
        THEN <<Attr("fill-opacity", Num(opacity(colour)))>> ELSE <<>>)

\* SVGWriter::view_box
view_box(self, x_max, ascender, descender) ==
    LET m == margin(self)
        is_flipped == IsFlipped(self.transform)
        min_y == IF is_flipped THEN -ascender ELSE descender
        scale == ExtractScale(self.transform)
    IN  [x |-> Round(RatMul(RatInt(0 - m.left), scale.x)),
         y |-> Round(RatMul(RatInt(min_y - m.top), scale.y)),
         width |-> Round(RatMul(RatInt(x_max + m.left + m.right), scale.x)),
         height |-> Round(RatMul(RatInt(ascender - descender + m.top + m.bottom),
                                 scale.y))]
ViewBoxText(vb) ==
    [kind |-> "viewbox", s |-> "",
     n |-> <<RatInt(vb.x), RatInt(vb.y), RatInt(vb.width), RatInt(vb.height)>>]

\* SVGWriter::crosshair_path
crosshair_path(self, origin) ==
    LET crosshair_size == RatMul(RatInt(100), ExtractScale(self.transform).x)
        xl == RatAdd(origin.x, RatNeg(crosshair_size))
        xr == RatAdd(origin.x, crosshair_size)
        yb == RatAdd(origin.y, RatNeg(crosshair_size))
        yt == RatAdd(origin.y, crosshair_size)
    IN  <<Token("M", <<xl, origin.y>>), Token("L", <<xr, origin.y>>),
          Token("M", <<origin.x, yb>>), Token("L", <<origin.x, yt>>)>>

\* SVGWriter::end, the part that writes one symbol
SymbolElement(self, symbol, state_keys) ==
    LET entries == HashMapIter(data(symbol, self.mode), state_keys)
        fill == IF IsSome(fg_colour(self))
                THEN FillAttrs(Unwrap(fg_colour(self))) ELSE <<>>
        crosshair ==
            IF IsSome(symbol.origin)
            THEN <<Element("path",
                     <<Attr("d", PathData(crosshair_path(self, Unwrap(symbol.origin)))),
                       Attr("stroke", Str("red")),
                       Attr("stroke-width",
                            Num(RatMul(ExtractScale(self.transform).x, RatInt(10))))>>,
                     <<>>)>>
            ELSE <<>>
    IN  Element("symbol",
            <<Attr("id", Str(id(symbol, self.mode)))>>
            \o [k \in 1..Len(entries) |-> Attr(entries[k][1], Str(entries[k][2]))]
            \o <<Attr("overflow", Str("visible"))>>,
            <<Element("path", <<Attr("d", PathData(symbol.path))>> \o fill, <<>>)>>
            \o crosshair)

\* mutant: every use statement refers to the first symbol
UseElement_FirstSymbol(self, symbols_, use) ==
    LET symbol == symbols_.symbols[1]
        point == use[2]
    IN  Element("use",
            <<Attr("xlink:href", Str("#" \o id(symbol, self.mode))),
              Attr("x", Num(RatInt(Round(point.x)))),
              Attr("y", Num(RatInt(Round(point.y))))>>,
            <<>>)

\* SVGWriter::end, the part that writes one use statement
UseElement(self, symbols_, use) ==
    LET symbol == symbols_.symbols[use[1] + 1]
        point == use[2]
    IN  Element("use",
            <<Attr("xlink:href", Str("#" \o id(symbol, self.mode))),
              Attr("x", Num(RatInt(Round(point.x)))),
              Attr("y", Num(RatInt(Round(point.y))))>>,
            <<>>)

\* SVGWriter::end; thread_keys are the hash keys of the thread at this call
end(self, x_max, ascender, descender, symbols_, thread_keys) ==
    LET vb == view_box(self, x_max, ascender, descender)
        rect ==
            IF IsSome(bg_colour(self))
            THEN <<Element("rect",
                     <<Attr("x", Num(RatInt(vb.x))), Attr("y", Num(RatInt(vb.y))),
                       Attr("width", Num(RatInt(vb.width))),
                       Attr("height", Num(RatInt(vb.height)))>>
                     \o FillAttrs(Unwrap(bg_colour(self))),
                     <<>>)>>
            ELSE <<>>
    IN  Element("svg",
            <<Attr("version", Str("1.1")),
              Attr("xmlns", Str("http://www.w3.org/2000/svg")),
              Attr("xmlns:xlink", Str("http://www.w3.org/1999/xlink")),
              Attr("viewBox", ViewBoxText(vb))>>,
            rect
            \o [k \in 1..Len(symbols_.symbols) |->
                    SymbolElement(self, symbols_.symbols[k], thread_keys + k - 1)]
            \o [k \in 1..Len(self.usage) |-> UseElement(self, symbols_, self.usage[k])])

--------------------------------------------------------------------------
(* glyphs_to_svg as a state machine: the call, one step per glyph, the end. *)
(* The same call is then made a second time on the same arguments.          *)

WriterShapes ==
    {Shape("None", 0, FALSE), Shape("MarkAnchor", 0, FALSE),
     Shape("MarkOverprint", 0, FALSE)}
WriterRuns == UNION {[1..n -> WriterShapes] : n \in 0..MaxWriterGlyphs}

WriterModes ==
    {TextRenderingTests("t"),
     View(FALSE, NoMargin, None, None),
     View(TRUE, Margin(10, 20, 30, 40), Some(Colour(0, 0, 0, 255)),
          Some(Colour(255, 255, 255, 128)))}

Builders ==
    {Builder(TRUE, None), Builder(FALSE, None), Builder(FALSE, Some(1)),
     Builder(TRUE, Some(2))}

\* the locals of glyphs_to_svg before it runs
WriterFresh ==
    /\ glyph_positions = <<>>
    /\ iter = <<>>
    /\ pen_x = 0
    /\ pen_y = 0
    /\ symbol_map = <<>>
    /\ visited = <<>>
    /\ named = <<>>
    /\ w_pc = "start"
    /\ svg = Pending
    /\ IdleSink

InitWriter ==
    /\ \E t \in Templates, shapes \in WriterRuns : w_infos = MakeInfos(t, shapes)
    /\ w_direction \in TextDirection
    /\ builder \in Builders
    /\ \E mode \in WriterModes, transform \in Transforms :
          writer = SVGWriterNew(mode, transform)
    /\ WriterFresh
    /\ call_no = 1
    /\ first_svg = Pending

\* glyphs_to_svg is not running
IdleWriter ==
    /\ w_infos = <<>>
    /\ w_direction = LeftToRight
    /\ builder = Builder(FALSE, None)
    /\ writer = SVGWriterNew(TextRenderingTests(""), FromScale(RatInt(1), RatInt(1)))
    /\ glyph_positions = <<>>
    /\ iter = <<>>
    /\ pen_x = 0
    /\ pen_y = 0
    /\ symbol_map = <<>>
    /\ visited = <<>>
    /\ named = <<>>
    /\ w_pc = "idle"
    /\ svg = Pending
    /\ call_no = 1
    /\ first_svg = Pending

\* mutant: the error of visit is dropped
VisitFailed_Ignored(found, v) == FALSE

\* builder.visit(glyph_index, tuple, &mut symbols)?, reached on a lookup miss
VisitFailed(found, v) == ~IsSome(found) /\ IsSome(v.error)

\* mutant: the run is walked in index order whatever the direction
IterOrder_Forward(n, direction_) == [k \in 1..n |-> k - 1]

\* infos.iter().zip(glyph_positions), reversed for RightToLeft
IterOrder(n, direction_) ==
    [k \in 1..n |-> IF direction_ = LeftToRight THEN k - 1 ELSE n - k]

AfterGlyph(rest) == IF rest = <<>> THEN "end" ELSE "loop"

\* glyphs_to_svg up to the loop of glyphs_to_svg_impl
GlyphsToSvg ==
    /\ w_pc = "start"
    /\ LET layout == calculate_glyph_positions(w_infos, w_direction, FALSE)
       IN  IF layout.tag = "Ok"
           THEN /\ glyph_positions' = Unwrap(layout.value)
                /\ iter' = IterOrder(Len(w_infos), w_direction)
                /\ w_pc' = AfterGlyph(IterOrder(Len(w_infos), w_direction))
                /\ svg' = svg
           ELSE /\ glyph_positions' = glyph_positions
                /\ iter' = iter
                /\ w_pc' = "done"
                /\ svg' = layout
    /\ pen_x' = 0
    /\ pen_y' = 0
    /\ sink' = SymbolsNew(writer.transform, writer.mode)
    /\ symbol_map' = <<>>
    /\ UNCHANGED <<w_infos, w_direction, builder, writer, visited, named, calls,
                   call_no, first_svg>>
    /\ UNCHANGED otherThanWriter

\* one iteration of for (info, pos) in iter { ... }
GlyphStep ==
    /\ w_pc = "loop"
    /\ LET k == Head(iter)
           info == At(w_infos, k)
           pos == At(glyph_positions, k)
           glyph_index == info.glyph_index
           found == MapGet(symbol_map, glyph_index)
           looked_up == gid_to_glyph_name(builder, glyph_index)
           glyph_name == IF IsSome(looked_up) THEN Unwrap(looked_up)
                         ELSE "gid" \o ToString(glyph_index)
           symbol_index == Len(sink.symbols)
           v == visit(builder, glyph_index, new_glyph(sink, glyph_name, info))
           failed == VisitFailed(found, v)
           annotated == IF annotate(writer)
                        THEN symbols_annotate(v.symbols, symbol_index,
                                              pos.x_offset, pos.y_offset)
                        ELSE v.symbols
       IN  /\ IF IsSome(found)
              THEN /\ writer' = use_glyph(writer, Unwrap(found),
                                    pen_x + pos.x_offset, pen_y + pos.y_offset)
                   /\ UNCHANGED <<sink, calls, symbol_map, visited, named>>
              ELSE /\ named' = Append(named, glyph_index)
                   /\ symbol_map' = MapInsert(symbol_map, glyph_index, symbol_index)
                   /\ visited' = Append(visited, glyph_index)
                   /\ calls' = calls \o v.made
                   /\ sink' = IF failed THEN v.symbols ELSE annotated
                   /\ writer' = IF failed THEN writer
                                ELSE use_glyph(writer, symbol_index,
                                        pen_x + pos.x_offset, pen_y + pos.y_offset)
           /\ IF failed
              THEN /\ svg' = Err("error building SVG: " \o Unwrap(v.error))
                   /\ w_pc' = "done"
                   /\ UNCHANGED <<pen_x, pen_y, iter>>
              ELSE /\ pen_x' = pen_x + pos.hori_advance
                   /\ pen_y' = pen_y + pos.vert_advance
                   /\ iter' = Tail(iter)
                   /\ w_pc' = AfterGlyph(Tail(iter))
                   /\ svg' = svg
    /\ UNCHANGED <<w_infos, w_direction, builder, glyph_positions, call_no, first_svg>>
    /\ UNCHANGED otherThanWriter

\* Ok(self.end(x, ascender, descender, symbols))
End ==
    /\ w_pc = "end"
    /\ \E thread_keys \in HashSeeds :
          svg' = Ok(end(writer, pen_x, hhea_table.ascender, hhea_table.descender,
                        sink, thread_keys))
    /\ w_pc' = "done"
    /\ UNCHANGED <<w_infos, w_direction, builder, writer, glyph_positions, iter,
                   pen_x, pen_y, symbol_map, visited, named, call_no, first_svg>>
    /\ UNCHANGED sinkVars
    /\ UNCHANGED otherThanWriter

\* the same call made again on the same arguments, by a new writer
Rerun ==
    /\ w_pc = "done"
    /\ call_no = 1
    /\ call_no' = 2
    /\ first_svg' = svg
    /\ writer' = SVGWriterNew(writer.mode, writer.transform)
    /\ glyph_positions' = <<>>
    /\ iter' = <<>>
    /\ pen_x' = 0
    /\ pen_y' = 0
    /\ symbol_map' = <<>>
    /\ visited' = <<>>
    /\ named' = <<>>
    /\ w_pc' = "start"
    /\ svg' = Pending
    /\ sink' = SymbolsNew(FromScale(RatInt(1), RatInt(1)), TextRenderingTests(""))
    /\ calls' = <<>>
    /\ UNCHANGED <<w_infos, w_direction, builder>>
    /\ UNCHANGED otherThanWriter

NextWriter == GlyphsToSvg \/ GlyphStep \/ End \/ Rerun

--------------------------------------------------------------------------
(* shape.rs: the position computation of the shape command.  It reads the   *)
(* mark placement of each glyph and positions the glyphs in a single pass.  *)

\* Placement::Anchor(_, _)
PlacementAnchor == [tag |-> "Anchor", dx |-> 0, dy |-> 0]

\* the thread panicked: the function did not return
Panicked == [tag |-> "Panic", value |-> None, error |-> None]

\* glyph_advance of shape.rs: Result<i32, BoxError>
shape_glyph_advance(info, vertical_) ==
    IF vertical_ /\ is_upright_glyph(info)
    THEN LET v == vertical_advance(info.glyph_index)
         IN  Ok((IF IsSome(v) THEN Unwrap(v)
                 ELSE hhea_table.ascender - hhea_table.descender) + info.kerning)
    ELSE LET h == horizontal_advance(info.glyph_index)
         IN  IF IsSome(h) THEN Ok(Unwrap(h) + info.kerning)
             ELSE Err("no horizontal advance for glyph")

\* let position = match info.mark_placement { ... }: Some(position), or None
\* when positions[base_index] is out of bounds and the thread panics
shape_position(infos_, positions_, info, advance, x_, y_) ==
    LET mark == info.mark_placement
    IN  CASE mark.tag = "MarkAnchor" ->
                IF mark.index < Len(positions_) /\ mark.index < Len(infos_)
                THEN LET base == At(positions_, mark.index)
                         d == PlacementOffset(At(infos_, mark.index).placement)
                     IN  Some(<<advance,
                                base[2] + mark.anchor1.x - mark.anchor2.x + d[1],
                                base[3] + mark.anchor1.y - mark.anchor2.y + d[2]>>)
                ELSE Some(<<advance, x_, y_>>)
          [] mark.tag = "MarkOverprint" ->
                IF mark.index < Len(positions_)
                THEN Some(At(positions_, mark.index))
                ELSE None
          [] OTHER ->
                IF info.placement.tag = "Distance"
                THEN Some(<<advance, x_ + info.placement.dx, y_ + info.placement.dy>>)
                ELSE Some(<<advance, x_, y_>>)

\* the infos the shaper hands over: the glyphs of a template, the first glyph
\* of "double" placed by an anchor, every mark placement with every base
\* index of the run and the first index past it
ShapeInfo(t, shape, k) ==
    LET g == MakeInfo(t, shape, k)
    IN  [glyph_index |-> g.glyph_index, kerning |-> g.kerning,
         is_vert_alt |-> g.is_vert_alt, upright_char |-> g.upright_char,
         placement |-> IF t = "double" /\ k = 0 THEN PlacementAnchor ELSE g.placement,
         mark_placement |-> g.attachment]
MarkPlacements(n) ==
    {Shape("None", 0, FALSE)}
    \cup {Shape("MarkAnchor", b, FALSE) : b \in 0..n}
    \cup {Shape("MarkOverprint", b, FALSE) : b \in 0..n}
ShapeInfos ==
    {[k \in 1..Len(shapes) |-> ShapeInfo(t, shapes[k], k - 1)] :
        t \in Templates,
        shapes \in UNION {[1..n -> MarkPlacements(n)] : n \in 0..MaxShapeGlyphs}}

AfterShapeGlyph(n, positioned) == IF positioned < n THEN "loop" ELSE "return"

InitShape ==
    /\ sh_infos \in ShapeInfos
    /\ sh_vertical \in BOOLEAN
    /\ sh_positions = <<>>
    /\ sh_x = 0
    /\ sh_y = 0
    /\ sh_pc = AfterShapeGlyph(Len(sh_infos), 0)
    /\ sh_result = Pending

IdleShape ==
    /\ sh_infos = <<>>
    /\ sh_vertical = FALSE
    /\ sh_positions = <<>>
    /\ sh_x = 0
    /\ sh_y = 0
    /\ sh_pc = "idle"
    /\ sh_result = Pending

\* for info in infos.iter() { ... }: one iteration
ShapeStep ==
    /\ sh_pc = "loop"
    /\ LET info == At(sh_infos, Len(sh_positions))
           advance == shape_glyph_advance(info, sh_vertical)
           position == shape_position(sh_infos, sh_positions, info,
                                      Unwrap(advance.value), sh_x, sh_y)
       IN  IF advance.tag = "Err"
           THEN /\ sh_result' = advance
                /\ sh_pc' = "done"
                /\ UNCHANGED <<sh_positions, sh_x, sh_y>>
           ELSE IF ~IsSome(position)
           THEN /\ sh_result' = Panicked
                /\ sh_pc' = "done"
                /\ UNCHANGED <<sh_positions, sh_x, sh_y>>
           ELSE /\ sh_positions' = Append(sh_positions, Unwrap(position))
                /\ sh_x' = IF sh_vertical THEN sh_x ELSE sh_x + Unwrap(advance.value)
                /\ sh_y' = IF sh_vertical THEN sh_y + Unwrap(advance.value) ELSE sh_y
                /\ sh_pc' = AfterShapeGlyph(Len(sh_infos), Len(sh_positions) + 1)
                /\ sh_result' = sh_result
    /\ UNCHANGED <<sh_infos, sh_vertical>>
    /\ UNCHANGED otherThanShape

\* Ok(positions)
ShapeReturn ==
    /\ sh_pc = "return"
    /\ sh_result' = Ok(sh_positions)
    /\ sh_pc' = "done"
    /\ UNCHANGED <<sh_infos, sh_vertical, sh_positions, sh_x, sh_y>>
    /\ UNCHANGED otherThanShape

NextShape == ShapeStep \/ ShapeReturn

\* x and y before glyph k is positioned: the advances of the glyphs before it
RECURSIVE ShapePen(_)
ShapePen(k) ==
    IF k = 0 THEN <<0, 0>>
    ELSE LET pen == ShapePen(k - 1)
             advance == Unwrap(shape_glyph_advance(At(sh_infos, k - 1), sh_vertical).value)
         IN  IF sh_vertical THEN <<pen[1], pen[2] + advance>>
             ELSE <<pen[1] + advance, pen[2]>>

\* glyph k names a base that was not positioned when glyph k was reached
MissingBase(k) == At(sh_infos, k).mark_placement.index >= k

\* C24: a MarkOverprint glyph takes the position of its base in the same
\* pass; a MarkOverprint glyph whose base index is not below the number of
\* glyphs positioned so far makes the function return an error, never
\* crash; a MarkAnchor glyph with such a base is placed at the pen.
C24_MissingBaseIsError ==
    /\ sh_result.tag # "Panic"
    /\ \A k \in 0..(Len(sh_positions) - 1) :
          LET mark == At(sh_infos, k).mark_placement
          IN  /\ (mark.tag = "MarkOverprint" /\ ~MissingBase(k))
                    => At(sh_positions, k) = At(sh_positions, mark.index)
              /\ (mark.tag = "MarkAnchor" /\ MissingBase(k))
                    => /\ At(sh_positions, k)[2] = ShapePen(k)[1]
                       /\ At(sh_positions, k)[3] = ShapePen(k)[2]
    /\ (/\ sh_pc = "done"
        /\ Len(sh_positions) < Len(sh_infos)
        /\ At(sh_infos, Len(sh_positions)).mark_placement.tag = "MarkOverprint"
        /\ MissingBase(Len(sh_positions)))
          => sh_result.tag = "Err"

--------------------------------------------------------------------------
(* subset.rs: subset_text.  Characters are Unicode code points.             *)

\* 'a', 'b', 'c', 'd', U+00E9 and U+4E00
TextChars == {97, 98, 99, 100, 233, 19968}

\* cmap_subtable.map_glyph of the font: 'b' and 'c' share glyph 3, 'd' is
\* mapped to glyph 0 and U+00E9 has no mapping
map_glyph(ch) ==
    CASE ch = 97 -> Some(5)
      [] ch = 98 -> Some(3)
      [] ch = 99 -> Some(3)
      [] ch = 100 -> Some(0)
      [] ch = 19968 -> Some(2)
      [] OTHER -> None

\* macroman::char_to_macroman: ASCII is kept, U+00E9 is 0x8E, U+4E00 has no
\* MacRoman code
char_to_macroman(ch) ==
    CASE ch < 128 -> Some(ch)
      [] ch = 233 -> Some(142)
      [] OTHER -> None

\* GlyphOrigin::Direct is None, GlyphOrigin::Char(ch) is Some(ch)
RawGlyph(glyph_index, glyph_origin) ==
    [glyph_index |-> glyph_index, glyph_origin |-> glyph_origin]

\* glyph::map: Some(glyph) for a mapped character, None otherwise
map(ch) ==
    IF IsSome(map_glyph(ch)) THEN Some(RawGlyph(Unwrap(map_glyph(ch)), Some(ch)))
    ELSE None

\* chars_to_glyphs followed by insert(0, Some(notdef)) and flatten
RECURSIVE FlattenGlyphs(_)
FlattenGlyphs(text) ==
    IF text = <<>> THEN <<>>
    ELSE map(Head(text)) \o FlattenGlyphs(Tail(text))
KeptGlyphs(text) == <<RawGlyph(0, None)>> \o FlattenGlyphs(text)

\* glyphs.sort_by(glyph_index): a stable sort
RECURSIVE InsertSorted(_, _)
InsertSorted(sorted, glyph) ==
    IF sorted = <<>> THEN <<glyph>>
    ELSE IF sorted[Len(sorted)].glyph_index <= glyph.glyph_index
         THEN Append(sorted, glyph)
         ELSE Append(InsertSorted(SubSeq(sorted, 1, Len(sorted) - 1), glyph),
                     sorted[Len(sorted)])
RECURSIVE SortByGlyphIndex(_)
SortByGlyphIndex(glyphs) ==
    IF glyphs = <<>> THEN <<>>
    ELSE InsertSorted(SortByGlyphIndex(SubSeq(glyphs, 1, Len(glyphs) - 1)),
                      glyphs[Len(glyphs)])

\* Vec::dedup: consecutive repetitions are removed
RECURSIVE Dedup(_)
Dedup(ids) ==
    IF Len(ids) <= 1 THEN ids
    ELSE LET front == Dedup(SubSeq(ids, 1, Len(ids) - 1))
         IN  IF front[Len(front)] = ids[Len(ids)] THEN front
             ELSE Append(front, ids[Len(ids)])

\* is_macroman of subset.rs
is_macroman(glyph) ==
    IsSome(glyph.glyph_origin) /\ IsSome(char_to_macroman(Unwrap(glyph.glyph_origin)))

\* glyph_index as u8 + 1 for the glyph at place k of glyphs.iter().skip(1)
Cmap0Entry(glyphs, k) == (k % 256) + 1

\* [0; 256]
ZeroTable ==
    LET z4 == <<0, 0, 0, 0>>
        z16 == z4 \o z4 \o z4 \o z4
        z64 == z16 \o z16 \o z16 \o z16
    IN  z64 \o z64 \o z64 \o z64

\* the for_each over glyphs.iter().skip(1).enumerate(), from place k on
RECURSIVE Cmap0Fill(_, _, _)
Cmap0Fill(cmap0, glyphs, k) ==
    IF k + 2 > Len(glyphs) THEN cmap0
    ELSE LET glyph == glyphs[k + 2]
             code == Unwrap(char_to_macroman(Unwrap(glyph.glyph_origin)))
         IN  Cmap0Fill(Put(cmap0, code, Cmap0Entry(glyphs, k)), glyphs, k + 1)

\* subset_text up to the call of subset::subset: the arguments of that call
subset_text(text) ==
    LET glyphs == SortByGlyphIndex(KeptGlyphs(text))
        glyph_ids == Dedup([k \in 1..Len(glyphs) |-> glyphs[k].glyph_index])
    IN  IF glyph_ids = <<>> THEN Err("no glyphs left in font")
        ELSE IF \A k \in 2..Len(glyphs) : is_macroman(glyphs[k])
        THEN Ok([glyph_ids |-> glyph_ids,
                 cmap0 |-> Cmap0Fill(ZeroTable, glyphs, 0)])
        ELSE Err("not mac roman compatible")

Texts == UNION {[1..n -> TextChars] : n \in 0..MaxText}

InitSubset ==
    /\ sub_text \in Texts
    /\ sub_result = Pending

IdleSubset ==
    /\ sub_text = <<>>
    /\ sub_result = Pending

SubsetText ==
    /\ sub_result = Pending
    /\ sub_result' = subset_text(sub_text)
    /\ UNCHANGED sub_text
    /\ UNCHANGED otherThanSubset

NextSubset == SubsetText

\* the place of a glyph index in glyph_ids, counted from 0
PlaceInIds(glyph_ids, glyph_index) ==
    (CHOOSE k \in 1..Len(glyph_ids) : glyph_ids[k] = glyph_index) - 1

\* C28: when subset_text reaches the subsetter, for every character of the
\* text that maps to a glyph, cmap0 at the MacRoman code of the character is
\* the place of that glyph index in the sorted, de-duplicated glyph_ids list
\* (.notdef at 0).
C28_Cmap0PointsAtGlyph ==
    sub_result.tag = "Ok" =>
        \A k \in 1..Len(sub_text) :
            LET ch == sub_text[k]
                kept == Unwrap(sub_result.value)
            IN  IsSome(map_glyph(ch)) =>
                    At(kept.cmap0, Unwrap(char_to_macroman(ch)))
                        = PlaceInIds(kept.glyph_ids, Unwrap(map_glyph(ch)))

--------------------------------------------------------------------------
(* cmap.rs and main.rs: the cmap command, from the command line to the      *)
(* exit code of the process.                                                *)

Encodings == {"Unicode", "Symbol", "AppleRoman", "Big5"}

\* the character codes of a sub-table: a line feed, 'A', the C1 control
\* U+0085 and the surrogate 0xD800
MappedCodes == {10, 65, 133, 55296}

\* A font file: how Font::new ends ("err", "none" for a font without a
\* suitable sub-table, "some"), whether the sub-table data parses, its
\* encoding, its mappings (character code k-th maps to glyph k), and whether
\* mappings_fn ends in a ParseError after them
FontFiles ==
    [new : {"err", "none", "some"},
     subtable_parses : BOOLEAN,
     encoding : Encodings,
     mappings : UNION {[1..n -> MappedCodes] : n \in 0..MaxMappings},
     mappings_fail : BOOLEAN]

\* std::char::from_u32: None for a surrogate or beyond U+10FFFF
from_u32(ch) ==
    IF (ch >= 55296 /\ ch <= 57343) \/ ch > 1114111 THEN None ELSE Some(ch)
is_ascii_control(chr) == chr < 32 \/ chr = 127
is_control(chr) == chr < 32 \/ (chr >= 127 /\ chr <= 159)

\* the closure given to mappings_fn: the line printed for one mapping
MappingLine(encoding, ch, gid) ==
    IF encoding = "Unicode"
    THEN LET chr == IF IsSome(from_u32(ch)) /\ is_ascii_control(ch)
                    THEN from_u32(ch + 9216)
                    ELSE from_u32(ch)
         IN  IF IsSome(chr) /\ is_control(Unwrap(chr))
             THEN [form |-> "    U+{:04X} -> {}", code |-> None, ch |-> ch, gid |-> gid]
             ELSE IF IsSome(chr)
             THEN [form |-> "'{}' U+{:04X} -> {}", code |-> chr, ch |-> ch, gid |-> gid]
             ELSE [form |-> "{} -> {}", code |-> None, ch |-> ch, gid |-> gid]
    ELSE [form |-> "{} -> {}", code |-> None, ch |-> ch, gid |-> gid]

\* the value dump_cmap returns after the mappings
dump_cmap_failed == TRUE

\* main of main.rs: the exit code for what the command returned
ExitCode(res) ==
    IF res.tag = "Ok" /\ Unwrap(res.value) # 0 THEN Unwrap(res.value)
    ELSE IF res.tag = "Ok" THEN 0
    ELSE 1

InitCmap ==
    /\ cm_font \in FontFiles
    /\ cm_pc = "main"
    /\ cm_next = 0
    /\ cm_stdout = <<>>
    /\ cm_res = Pending
    /\ cm_exit = None

IdleCmap ==
    /\ cm_font = [new |-> "err", subtable_parses |-> FALSE, encoding |-> "Unicode",
                  mappings |-> <<>>, mappings_fail |-> FALSE]
    /\ cm_pc = "idle"
    /\ cm_next = 0
    /\ cm_stdout = <<>>
    /\ cm_res = Pending
    /\ cm_exit = None

\* cmap::main up to the call of dump_cmap
CmapMain ==
    /\ cm_pc = "main"
    /\ cm_res' = CASE cm_font.new = "err" -> Err("ParseError")
                   [] cm_font.new = "none" -> Ok(1)
                   [] OTHER -> cm_res
    /\ cm_pc' = IF cm_font.new = "some" THEN "dump_cmap" ELSE "exit"
    /\ UNCHANGED <<cm_font, cm_next, cm_stdout, cm_exit>>
    /\ UNCHANGED otherThanCmap

\* dump_cmap: the sub-table is read and the encoding printed
CmapReadSubtable ==
    /\ cm_pc = "dump_cmap"
    /\ IF cm_font.subtable_parses
       THEN /\ cm_stdout' = Append(cm_stdout,
                    [form |-> "cmap sub-table encoding: {:?}", code |-> None,
                     ch |-> 0, gid |-> 0])
            /\ cm_pc' = "mappings"
            /\ cm_res' = cm_res
       ELSE /\ cm_res' = Err("ParseError")
            /\ cm_pc' = "exit"
            /\ cm_stdout' = cm_stdout
    /\ UNCHANGED <<cm_font, cm_next, cm_exit>>
    /\ UNCHANGED otherThanCmap

\* mappings_fn hands one mapping to the closure
CmapMapping ==
    /\ cm_pc = "mappings"
    /\ cm_next < Len(cm_font.mappings)
    /\ cm_stdout' = Append(cm_stdout,
            MappingLine(cm_font.encoding, cm_font.mappings[cm_next + 1], cm_next + 1))
    /\ cm_next' = cm_next + 1
    /\ UNCHANGED <<cm_font, cm_pc, cm_res, cm_exit>>
    /\ UNCHANGED otherThanCmap

\* mappings_fn returns, then dump_cmap, then cmap::main
CmapReturn ==
    /\ cm_pc = "mappings"
    /\ cm_next = Len(cm_font.mappings)
    /\ cm_res' = IF cm_font.mappings_fail THEN Err("ParseError")
                 ELSE IF dump_cmap_failed THEN Ok(1)
                 ELSE Ok(0)
    /\ cm_pc' = "exit"
    /\ UNCHANGED <<cm_font, cm_next, cm_stdout, cm_exit>>
    /\ UNCHANGED otherThanCmap

\* main of main.rs: the process ends
CmapExit ==
    /\ cm_pc = "exit"
    /\ cm_exit' = Some(ExitCode(cm_res))
    /\ cm_pc' = "done"
    /\ UNCHANGED <<cm_font, cm_next, cm_stdout, cm_res>>
    /\ UNCHANGED otherThanCmap

NextCmap == CmapMain \/ CmapReadSubtable \/ CmapMapping \/ CmapReturn \/ CmapExit

\* the font has a usable cmap sub-table and every mapping was printed
\* without a parse error
CmapPrinted ==
    /\ cm_font.new = "some"
    /\ cm_font.subtable_parses
    /\ ~cm_font.mappings_fail
    /\ Len(cm_stdout) = Len(cm_font.mappings) + 1

\* C29: the cmap command ends with exit code 0 when the font has a usable
\* cmap sub-table and all its mappings were printed without a parse error,
\* and with a non-zero exit code only when it failed.
C29_ExitZeroOnSuccess ==
    cm_pc = "done" => (cm_exit = Some(0) <=> CmapPrinted)

\* the commands are not running
IdleCommands == IdleShape /\ IdleSubset /\ IdleCmap

--------------------------------------------------------------------------
(* Specifications *)

\* calculate_glyph_positions on every run of ShapeRuns
Init == InitPositions /\ IdleDirection /\ IdleSink /\ IdleWriter /\ IdleCommands
Next == NextPositions
Spec == Init /\ [][Next]_vars

\* script::direction on every tag of ScriptTags
InitDir == InitDirection /\ IdlePositions /\ IdleSink /\ IdleWriter /\ IdleCommands
SpecDir == InitDir /\ [][NextDirection]_vars

\* the outline sink under every sequence of calls
InitSinkOnly == InitSink /\ IdlePositions /\ IdleDirection /\ IdleWriter /\ IdleCommands
SpecSink == InitSinkOnly /\ [][NextSink]_vars

\* glyphs_to_svg, called twice on every run of WriterRuns
InitSvg == InitWriter /\ IdlePositions /\ IdleDirection /\ IdleCommands
SpecSvg == InitSvg /\ [][NextWriter]_vars

\* the position computation of the shape command on every run of ShapeInfos
InitShapeOnly ==
    InitShape /\ IdlePositions /\ IdleDirection /\ IdleSink /\ IdleWriter
    /\ IdleSubset /\ IdleCmap
SpecShape == InitShapeOnly /\ [][NextShape]_vars

\* subset_text on every text of Texts
InitSubsetOnly ==
    InitSubset /\ IdlePositions /\ IdleDirection /\ IdleSink /\ IdleWriter
    /\ IdleShape /\ IdleCmap
SpecSubset == InitSubsetOnly /\ [][NextSubset]_vars

\* the cmap command on every font file of FontFiles
InitCmapOnly ==
    InitCmap /\ IdlePositions /\ IdleDirection /\ IdleSink /\ IdleWriter
    /\ IdleShape /\ IdleSubset
SpecCmap == InitCmapOnly /\ [][NextCmap]_vars

--------------------------------------------------------------------------
(* Claims about calculate_glyph_positions *)

Indices == 0..(Len(infos) - 1)
AttachmentOf(k) == At(infos, k).attachment
IsMark(k) == AttachmentOf(k).tag \in {"MarkAnchor", "MarkOverprint"}
Returned == Unwrap(result.value)

\* C1: whenever the function returns Ok the returned vector has one entry per
\* input glyph and entry k is the one computed from glyph k: an unattached
\* glyph k carries the x placement of infos[k], and every glyph that stores
\* an advance carries the cross-checked advance of infos[k]; no loop changes
\* the length of the buffer on the way.
C1_IndexCorrespondence ==
    /\ pc # "done" => Len(positions) = Len(infos)
    /\ result.tag = "Ok" =>
         /\ Len(Returned) = Len(infos)
         /\ \A k \in Indices :
              LET info == At(infos, k)
                  adv == Unwrap(glyph_advance(info, vertical).value)
              IN  /\ info.attachment.tag = "None" =>
                        At(Returned, k).x_offset = PlacementOffset(info.placement)[1]
                  /\ info.attachment.tag # "MarkOverprint" =>
                        At(Returned, k).vert_advance = adv[2]

C1_Witness ==
    /\ result.tag = "Ok"
    /\ Len(infos) >= 2
    /\ has_marks
    /\ has_cursive_connection

OverprintEqualsBase(p, k) ==
    LET b == AttachmentOf(k).index
    IN  /\ At(p, k).x_offset = At(p, b).x_offset
        /\ At(p, k).y_offset = At(p, b).y_offset

\* a base that is itself a mark and comes later in the run is repositioned by
\* the third loop after the overprint glyph has copied its offset
BaseIsLaterMark(k) == AttachmentOf(k).index > k /\ IsMark(AttachmentOf(k).index)

\* C2 as stated: every MarkOverprint(base) glyph is returned with the offset
\* returned for its base, whatever the base's attachment and position.
C2_OverprintAnyBase ==
    result.tag = "Ok" =>
        \A k \in Indices :
            AttachmentOf(k).tag = "MarkOverprint" => OverprintEqualsBase(Returned, k)

\* C2 amended: a MarkOverprint(base) glyph is returned with the offset returned
\* for its base unless the base is a mark glyph at a higher index.
C2_OverprintSettledBase ==
    result.tag = "Ok" =>
        \A k \in Indices :
            (AttachmentOf(k).tag = "MarkOverprint" /\ ~BaseIsLaterMark(k))
                => OverprintEqualsBase(Returned, k)

C2_Witness ==
    /\ result.tag = "Ok"
    /\ \E k \in Indices :
          /\ AttachmentOf(k).tag = "MarkOverprint"
          /\ AttachmentOf(k).index # k
          /\ ~BaseIsLaterMark(k)
          /\ At(Returned, k).x_offset # 0
          /\ At(Returned, k).y_offset # 0

C3_Scenario ==
    /\ Len(infos) = 2
    /\ AttachmentOf(0) = CursiveAnchor(1, FALSE, Anchor(100, 50), Anchor(0, 0))
    /\ AttachmentOf(1).tag = "None"

\* the second loop has run to its end and the third has not started
CursivePassDone ==
    /\ has_cursive_connection
    /\ \/ pc = "return" /\ ~has_marks
       \/ pc = "marks" /\ i = 0

FirstPassPositions == FirstPassResult(infos, vertical).positions

HasBadIndex(k) ==
    AttachmentOf(k).tag # "None" /\ AttachmentOf(k).index >= Len(infos)
SomeBadIndex == \E k \in Indices : HasBadIndex(k)
FirstBadIndex == CHOOSE k \in Indices : HasBadIndex(k) /\ \A j \in 0..(k - 1) : ~HasBadIndex(j)
AdvanceKnown(k) == glyph_advance(At(infos, k), vertical).tag = "Ok"

\* C4 as stated: with an out-of-range base or exit index anywhere in the run
\* the function returns the BadIndex error.
C4_AlwaysBadIndex ==
    (SomeBadIndex /\ pc = "done") => result = Err("BadIndex")

\* C4 amended: with an out-of-range index in the run the function never gets
\* past the first loop and returns an error without positions; the error is
\* BadIndex exactly when every glyph up to and including the first one with a
\* bad index has an advance (the advance is looked up before the index).
C4_ErrorNoPositions ==
    SomeBadIndex =>
        /\ \/ pc = "first" /\ i <= FirstBadIndex /\ result = Pending
           \/ pc = "done" /\ result.tag = "Err" /\ result.value = None
        /\ pc = "done" =>
             (result.error = Some("BadIndex")
                 <=> \A k \in 0..FirstBadIndex : AdvanceKnown(k))

C4_Witness ==
    /\ SomeBadIndex
    /\ FirstBadIndex >= 1
    /\ pc = "done"
    /\ result = Err("BadIndex")

UsesVertical(k) == vertical /\ is_upright_glyph(At(infos, k))
NoHorizontal(k) ==
    ~UsesVertical(k) /\ horizontal_advance(At(infos, k).glyph_index) = None
NoVertical(k) ==
    UsesVertical(k) /\ vertical_advance(At(infos, k).glyph_index) = None

\* C9 as stated: a glyph without the advance its layout needs, horizontal or
\* vertical, makes the function return an error.
C9_MissingAdvanceIsError ==
    ((\E k \in Indices : NoHorizontal(k) \/ NoVertical(k)) /\ pc = "done")
        => result.tag = "Err"

\* C9 amended: a glyph without the horizontal advance its layout needs makes
\* the function stop in the first loop with an error and no positions; an
\* upright glyph without a vertical advance in vertical layout is given
\* ascender - descender (plus kerning) instead, and is no error.
C9_HorizontalErrorVerticalFallback ==
    /\ (\E k \in Indices : NoHorizontal(k)) =>
          /\ pc \in {"first", "done"}
          /\ pc = "done" => (result.tag = "Err" /\ result.value = None)
    /\ result.tag = "Ok" =>
          \A k \in Indices :
              (NoVertical(k) /\ AttachmentOf(k).tag # "MarkOverprint") =>
                  At(Returned, k).vert_advance =
                      hhea_table.ascender - hhea_table.descender
                      + At(infos, k).kerning

C9_Witness ==
    /\ \E k \in Indices : k >= 1 /\ NoHorizontal(k)
    /\ ~SomeBadIndex
    /\ pc = "done"
    /\ result = Err("no horizontal advance for glyph")

\* the positions after the first and the second loop, before the third
AfterCursivePositions ==
    LET first == FirstPassResult(infos, vertical)
    IN  IF first.has_cursive_connection
        THEN CursivePassFold(infos, direction,
                [positions |-> first.positions, overflow |-> FALSE], 0).positions
        ELSE first.positions

\* the sums of hori_advance and vert_advance of p over the indices from..to
RECURSIVE AdvanceSum(_, _, _)
AdvanceSum(p, from, to) ==
    IF from > to THEN <<0, 0>>
    ELSE LET rest == AdvanceSum(p, from + 1, to)
         IN  <<At(p, from).hori_advance + rest[1], At(p, from).vert_advance + rest[2]>>

Lower(a, b) == IF a < b THEN a ELSE b
Higher(a, b) == IF a < b THEN b ELSE a
DirectionSign == IF direction = LeftToRight THEN -1 ELSE 1

\* C12 as stated: a MarkAnchor glyph is returned with the offset returned for
\* its base plus its first-pass anchor offset, minus (LeftToRight) or plus
\* (RightToLeft) the advances of the glyphs strictly between the two.
C12_SumStrictlyBetween ==
    result.tag = "Ok" =>
        \A k \in Indices :
            AttachmentOf(k).tag = "MarkAnchor" =>
                LET b == AttachmentOf(k).index
                    sum == AdvanceSum(Returned, Lower(b, k) + 1, Higher(b, k) - 1)
                IN  /\ At(Returned, k).x_offset =
                          At(Returned, b).x_offset + At(FirstPassPositions, k).x_offset
                          + DirectionSign * sum[1]
                    /\ At(Returned, k).y_offset =
                          At(Returned, b).y_offset + At(FirstPassPositions, k).y_offset
                          + DirectionSign * sum[2]

\* C12 amended: a MarkAnchor glyph k whose base b is not a mark at index k or
\* higher is returned with the offset returned for b plus the offset k had
\* when the third loop began, minus (LeftToRight) the advances of the glyphs
\* b..k-1, the base included, or plus (RightToLeft) the advances of the
\* glyphs k..b-1, the mark included; an empty range adds nothing.
C12_SumFromBaseOrFromMark ==
    result.tag = "Ok" =>
        \A k \in Indices :
            LET b == AttachmentOf(k).index
            IN  (AttachmentOf(k).tag = "MarkAnchor" /\ ~(b >= k /\ IsMark(b))) =>
                    LET sum == IF direction = LeftToRight
                               THEN AdvanceSum(Returned, b, k - 1)
                               ELSE AdvanceSum(Returned, k, b - 1)
                    IN  /\ At(Returned, k).x_offset =
                              At(Returned, b).x_offset
                              + At(AfterCursivePositions, k).x_offset
                              + DirectionSign * sum[1]
                        /\ At(Returned, k).y_offset =
                              At(Returned, b).y_offset
                              + At(AfterCursivePositions, k).y_offset
                              + DirectionSign * sum[2]

C12_Witness ==
    /\ result.tag = "Ok"
    /\ direction = LeftToRight
    /\ Len(infos) = 3
    /\ AttachmentOf(2).tag = "MarkAnchor"
    /\ AttachmentOf(2).index = 0
    /\ At(Returned, 0).hori_advance > 0
    /\ At(Returned, 1).hori_advance > 0
    /\ At(Returned, 2).x_offset =
          At(Returned, 0).x_offset + At(FirstPassPositions, 2).x_offset
          - At(Returned, 0).hori_advance - At(Returned, 1).hori_advance

\* the first loop has run to its end without an error and the second loop
\* is at one of its iterations
InCursivePass == pc = "cursive"

\* C13 as stated: after the first pass and throughout the cursive pass, the
\* exit glyph j of every CursiveAnchor glyph k carries the link Some(k),
\* whatever the order of j and k and however many glyphs name j.
C13_LinkToEveryExit ==
    InCursivePass =>
        \A k \in Indices :
            AttachmentOf(k).tag = "CursiveAnchor" =>
                At(positions, AttachmentOf(k).index).cursive_attachment = Some(k)

\* The iteration of the second loop about to run applies a CursiveAnchor and
\* runs to its end; the pair {i, exit_idx} it applies, the glyph the claim
\* names for the cross-stream shift and the other glyph of the pair.
CursiveApplied ==
    /\ pc = "cursive"
    /\ AttachmentOf(i).tag = "CursiveAnchor"
    /\ pc' # "done"
PairLower == Lower(i, AttachmentOf(i).index)
PairHigher == Higher(i, AttachmentOf(i).index)
PairShifted == IF AttachmentOf(i).rtl_flag THEN PairLower ELSE PairHigher
PairOther == IF AttachmentOf(i).rtl_flag THEN PairHigher ELSE PairLower
PairDy == AttachmentOf(i).anchor1.y - AttachmentOf(i).anchor2.y

\* the glyphs reached by following cursive_attachment links from index,
\* index included
RECURSIVE Chain(_, _, _)
Chain(index, p, hops) ==
    LET link == At(p, index).cursive_attachment
    IN  IF IsSome(link) /\ hops < Len(p)
        THEN {index} \cup Chain(Unwrap(link), p, hops + 1)
        ELSE {index}

\* the glyphs the propagation of this application visits
PairChain ==
    LET link == At(positions, PairShifted).cursive_attachment
    IN  IF IsSome(link) THEN Chain(Unwrap(link), positions, 0) ELSE {}

\* C14 as stated: one CursiveAnchor application shifts the lower-index glyph
\* of the pair when the right_to_left flag is set and the higher-index glyph
\* when it is clear, and the other glyph of the pair leaves the application,
\* chain propagation included, with the y_offset it had.
C14_OtherKeepsOffset ==
    [][(CursiveApplied /\ PairLower # PairHigher) =>
          /\ PairShifted \notin PairChain =>
                At(positions', PairShifted).y_offset =
                    At(positions, PairShifted).y_offset + PairDy
                        + At(positions, PairOther).y_offset
          /\ At(positions', PairOther).y_offset = At(positions, PairOther).y_offset]_vars

\* C15 as stated: one CursiveAnchor application changes the y_offset of the
\* glyph selected for the cross-stream shift by exactly
\* dy = exit_anchor.y - entry_anchor.y, whatever the y_offset of the other
\* glyph of the pair.
C15_ShiftedByDy ==
    [][CursiveApplied =>
          At(positions', PairShifted).y_offset =
              At(positions, PairShifted).y_offset + PairDy]_vars

\* C15 amended: the y_offset of the selected glyph changes by dy plus the
\* y_offset the other glyph of the pair has when the application starts.
C15_ShiftedByDyPlusOther ==
    [][CursiveApplied =>
          At(positions', PairShifted).y_offset =
              At(positions, PairShifted).y_offset + PairDy
                  + At(positions, PairOther).y_offset]_vars

\* glyph 0 has been aligned to glyph 1, which sits at a non-zero y_offset
C15_Witness ==
    /\ Len(infos) = 2
    /\ AttachmentOf(0).tag = "CursiveAnchor"
    /\ AttachmentOf(0).index = 1
    /\ AttachmentOf(0).rtl_flag
    /\ AttachmentOf(1).tag = "None"
    /\ pc = "cursive"
    /\ i = 1
    /\ At(positions, 1).y_offset # 0
    /\ AttachmentOf(0).anchor1.y # AttachmentOf(0).anchor2.y
    /\ At(positions, 0).y_offset =
          AttachmentOf(0).anchor1.y - AttachmentOf(0).anchor2.y
              + At(positions, 1).y_offset

\* the glyph shifted by the application about to run carries a link
CursiveLinked ==
    /\ pc = "cursive"
    /\ AttachmentOf(i).tag = "CursiveAnchor"
    /\ IsSome(At(positions, PairShifted).cursive_attachment)

\* C16 as stated: when the shifted glyph has a cursive_attachment link, the
\* application ends with every glyph reachable over the links raised by dy
\* exactly once and every glyph off the chain, the shifted glyph aside, as
\* it was.
C16_ChainRaisedOnce ==
    [][CursiveLinked =>
          /\ pc' # "done"
          /\ \A k \in Indices \ {PairShifted} :
                At(positions', k).y_offset =
                    At(positions, k).y_offset + (IF k \in PairChain THEN PairDy ELSE 0)]_vars

\* glyph k is the lower index of the pair of some CursiveAnchor glyph
IsPairLower(k) ==
    \E m \in Indices :
        /\ AttachmentOf(m).tag = "CursiveAnchor"
        /\ Lower(m, AttachmentOf(m).index) = k

\* C17: once the cursive pass has run, every glyph has the vert_advance the
\* first pass gave it, and every glyph that is not the lower index of a
\* CursiveAnchor pair has the hori_advance the first pass gave it.
C17_OnlyLowerAdvanceChanges ==
    CursivePassDone =>
        \A k \in Indices :
            /\ At(positions, k).vert_advance = At(FirstPassPositions, k).vert_advance
            /\ ~IsPairLower(k) =>
                  At(positions, k).hori_advance = At(FirstPassPositions, k).hori_advance

\* a pair whose lower glyph has a new hori_advance, in a run with a glyph
\* outside the lower places that has an advance
C17_Witness ==
    /\ CursivePassDone
    /\ \E k \in Indices :
          /\ IsPairLower(k)
          /\ At(positions, k).hori_advance # At(FirstPassPositions, k).hori_advance
    /\ \E k \in Indices :
          /\ ~IsPairLower(k)
          /\ At(positions, k).hori_advance + At(positions, k).vert_advance # 0
    /\ \E k \in Indices :
          /\ AttachmentOf(k).tag = "CursiveAnchor"
          /\ AttachmentOf(k).anchor2.y # 0

\* the first loop has run to its end without an error and neither of the
\* later loops has started
FirstPassDone ==
    \/ pc = "cursive" /\ i = 0
    \/ pc = "marks" /\ i = 0 /\ ~has_cursive_connection

\* C18: after the first pass a MarkAnchor(base, base_anchor, mark_anchor)
\* glyph has the offset base_anchor - mark_anchor plus the Distance placement
\* of infos[base], (0, 0) for a base without one; this holds for a base
\* before the mark and for a base after it.
C18_FirstPassMarkOffset ==
    FirstPassDone =>
        \A k \in Indices :
            LET att == AttachmentOf(k)
                base == At(infos, att.index).placement
                dx == IF base.tag = "Distance" THEN base.dx ELSE 0
                dy == IF base.tag = "Distance" THEN base.dy ELSE 0
            IN  att.tag = "MarkAnchor" =>
                    /\ At(positions, k).x_offset = att.anchor1.x - att.anchor2.x + dx
                    /\ At(positions, k).y_offset = att.anchor1.y - att.anchor2.y + dy

\* a mark whose base comes after it and has a Distance placement
C18_Witness ==
    /\ FirstPassDone
    /\ \E k \in Indices :
          LET att == AttachmentOf(k)
          IN  /\ att.tag = "MarkAnchor"
              /\ att.index > k
              /\ At(infos, att.index).placement.tag = "Distance"
              /\ At(infos, att.index).placement.dx # 0
              /\ At(infos, att.index).placement.dy # 0
              /\ att.anchor1.x # att.anchor2.x
              /\ At(positions, k).x_offset # 0

\* glyph k is one of the two glyphs of some CursiveAnchor pair
InCursivePair(k) ==
    \E m \in Indices :
        /\ AttachmentOf(m).tag = "CursiveAnchor"
        /\ k \in {m, AttachmentOf(m).index}

\* glyph k is reached by following the links left by the first pass from
\* some glyph that carries one
OnSomeChain(k) ==
    \E m \in Indices :
        LET link == At(FirstPassPositions, m).cursive_attachment
        IN  IsSome(link) /\ k \in Chain(Unwrap(link), FirstPassPositions, 0)

Unattached(k) ==
    /\ AttachmentOf(k).tag = "None"
    /\ ~InCursivePair(k)
    /\ ~OnSomeChain(k)

\* C19: an unattached glyph outside every CursiveAnchor pair and off every
\* chain of links is returned with its Placement as offset ((0, 0) without
\* one) and the font advance plus kerning as advance: what the first loop
\* stored for it is what the function returns.
C19_UnattachedAsPlaced ==
    result.tag = "Ok" =>
        \A k \in Indices :
            Unattached(k) =>
                LET info == At(infos, k)
                    adv == Unwrap(glyph_advance(info, vertical).value)
                    dx == IF info.placement.tag = "Distance" THEN info.placement.dx ELSE 0
                    dy == IF info.placement.tag = "Distance" THEN info.placement.dy ELSE 0
                IN  /\ At(Returned, k).x_offset = dx
                    /\ At(Returned, k).y_offset = dy
                    /\ At(Returned, k).hori_advance = adv[1]
                    /\ At(Returned, k).vert_advance = adv[2]
                    /\ At(Returned, k) = At(FirstPassPositions, k)

\* a placed unattached glyph next to a cursive pair that has been moved
C19_Witness ==
    /\ result.tag = "Ok"
    /\ has_cursive_connection
    /\ \E k \in Indices :
          /\ Unattached(k)
          /\ At(infos, k).placement.tag = "Distance"
          /\ At(Returned, k).x_offset # 0
          /\ At(Returned, k).y_offset # 0
          /\ At(Returned, k).hori_advance # 0
    /\ \E k \in Indices :
          At(Returned, k).y_offset # At(FirstPassPositions, k).y_offset

\* C22 as stated: calculate_glyph_positions ends by returning Ok or Err for
\* every run, runs whose cursive_attachment links form a cycle or point at
\* their own glyph included.
C22_AlwaysReturns ==
    pc = "done" => result.tag \in {"Ok", "Err"}

\* the index carried by the attachment of glyph k is the index of a glyph
IndexOfGlyph(k) ==
    AttachmentOf(k).tag = "None" \/ AttachmentOf(k).index < Len(infos)

\* C23: no index is used that is not smaller than n.  While the function
\* runs the buffer has one entry per glyph and every link in it is the index
\* of a glyph; every glyph the first loop has passed, and so every glyph by
\* the time the second and third loops index positions with base_index,
\* exit_glyph_index and the links, carries the index of a glyph; a run with
\* an index of n or more ends in Err.
C23_IndicesInRange ==
    /\ pc \in {"first", "cursive", "marks", "return"} =>
          /\ Len(positions) = Len(infos)
          /\ \A k \in Indices :
                LET link == At(positions, k).cursive_attachment
                IN  IsSome(link) => Unwrap(link) < Len(positions)
    /\ pc = "first" => \A k \in 0..(i - 1) : IndexOfGlyph(k)
    /\ pc \in {"cursive", "marks", "return"} => \A k \in Indices : IndexOfGlyph(k)
    /\ (pc = "done" /\ \E k \in Indices : ~IndexOfGlyph(k)) => result.tag = "Err"

\* a run whose second glyph names the index one past the end as its exit
\* glyph, after a first glyph that left a link in the buffer
C23_Witness ==
    /\ pc = "done"
    /\ result.tag = "Err"
    /\ Len(infos) = 2
    /\ AttachmentOf(0).tag = "CursiveAnchor"
    /\ AttachmentOf(0).index = 1
    /\ AttachmentOf(1).tag = "CursiveAnchor"
    /\ AttachmentOf(1).index = 2

\* C27: every position returned advances along one axis only: when vertical
\* is false every vert_advance is 0, and when vertical is true every
\* hori_advance is 0, whatever the attachments of the run.
C27_OneAxisOnly ==
    result.tag = "Ok" =>
        \A k \in Indices :
            /\ ~vertical => At(Returned, k).vert_advance = 0
            /\ vertical => At(Returned, k).hori_advance = 0

\* C30: in the mark pass, for every pair of indices from and to,
\* sum_advance(positions.get(from..to)) is the pair of the sums of
\* hori_advance and of vert_advance over the glyphs from..to-1 when
\* from <= to <= len, and (0, 0) when from > to or to > len.
C30_SumOverRangeOrZero ==
    pc = "marks" =>
        \A from \in 0..(Len(positions) + 1), to \in 0..(Len(positions) + 1) :
            sum_advance(SliceGet(positions, from, to)) =
                IF from <= to /\ to <= Len(positions)
                THEN AdvanceSum(positions, from, to - 1)
                ELSE <<0, 0>>

\* the mark pass is at a LeftToRight mark whose base comes after it, so that
\* the range base..i is invalid, with advances on the glyphs between the two
\* and on the whole array
C30_Witness ==
    /\ pc = "marks"
    /\ direction = LeftToRight
    /\ AttachmentOf(i).tag = "MarkAnchor"
    /\ AttachmentOf(i).index > i
    /\ AttachmentOf(i).index < Len(positions)
    /\ AdvanceSum(positions, i, AttachmentOf(i).index - 1)[1] > 0
    /\ sum_advance(SliceGet(positions, AttachmentOf(i).index, i)) = <<0, 0>>
    /\ sum_advance(SliceGet(positions, 0, Len(positions)))[1] > 0

--------------------------------------------------------------------------
(* Claims about script::direction *)

\* the right-to-left script tags as the claim lists them
ListedRtlNames ==
    {<<"a", "r", "a", "b">>, <<"h", "e", "b", "r">>, <<"s", "y", "r", "c">>,
     <<"t", "h", "a", "a">>, <<"c", "p", "r", "t">>, <<"k", "h", "a", "r">>,
     <<"p", "h", "n", "x">>, <<"n", "k", "o", " ">>, <<"l", "y", "d", "i">>,
     <<"a", "v", "s", "t">>, <<"a", "r", "m", "i">>, <<"p", "h", "l", "i">>,
     <<"p", "r", "t", "i">>, <<"s", "a", "r", "b">>, <<"o", "r", "k", "h">>,
     <<"s", "a", "m", "r">>, <<"m", "a", "n", "d">>, <<"m", "e", "r", "c">>,
     <<"m", "e", "r", "o">>, <<"m", "a", "n", "i">>, <<"m", "e", "n", "d">>,
     <<"n", "b", "a", "t">>, <<"n", "a", "r", "b">>, <<"p", "a", "l", "m">>,
     <<"p", "h", "l", "p">>}

\* C8: direction returns a direction for every tag; it is RightToLeft exactly
\* for the 25 listed tags and LeftToRight for every other value.
C8_DirectionTable ==
    IsSome(script_direction) =>
        /\ Cardinality(ListedRtlNames) = 25
        /\ Unwrap(script_direction) \in TextDirection
        /\ (Unwrap(script_direction) = RightToLeft)
               <=> (\E name \in ListedRtlNames : script = tag(name))
        /\ (Unwrap(script_direction) = LeftToRight)
               <=> (\A name \in ListedRtlNames : script # tag(name))

C8_Witness ==
    /\ script = tag(<<"n", "k", "o", " ">>)
    /\ script_direction = Some(RightToLeft)

--------------------------------------------------------------------------
(* Claims about the outline sink *)

\* the path command a call writes when nothing is suppressed
TokenOf(call) ==
    LET written == ApplyCall(new_glyph(SymbolsNew(sink.transform, sink.mode),
                                       "gid1", SinkInfo), call)
    IN  current_path(written)[1]

\* the last contour of calls is move_to(p0), ..., line_to(pk), close() with
\* pk = p0 and only drawing commands in between; m is where its move_to is
ContourStartingAt(m) ==
    LET n == Len(calls)
    IN  /\ 1 <= m /\ m <= n - 2
        /\ calls[m].op = "move_to"
        /\ calls[n - 1].op = "line_to"
        /\ calls[n].op = "close"
        /\ calls[n - 1].pts[1] = calls[m].pts[1]
        /\ \A j \in (m + 1)..(n - 1) : calls[j].op \notin {"move_to", "close"}

\* the path commands written since the last M command
LastContourPath ==
    LET path == current_path(sink)
        start == CHOOSE k \in 1..Len(path) :
                    path[k].op = "M" /\ \A j \in (k + 1)..Len(path) : path[j].op # "M"
    IN  SubSeq(path, start, Len(path))

\* C6: for a contour move_to(p0), ..., line_to(pk), close() with pk = p0, in
\* TextRenderingTests mode the final L command is absent and the path ends
\* with the preceding command followed by Z; in View mode the same calls
\* leave the final L command in the path.
C6_FinalLineSuppressedInTests ==
    \A m \in 1..Len(calls) :
        ContourStartingAt(m) =>
            LET n == Len(calls)
                before == [j \in 1..(n - 1 - m) |-> TokenOf(calls[m + j - 1])]
                final == TokenOf(calls[n - 1])
                z == Token("Z", <<>>)
            IN  IF IsTests(sink.mode)
                THEN LastContourPath = before \o <<z>>
                ELSE LastContourPath = before \o <<final, z>>

C6_Witness ==
    /\ IsTests(sink.mode)
    /\ Len(calls) = 4
    /\ ContourStartingAt(1)
    /\ calls[2].op = "quadratic_curve_to"
    /\ calls[1].pts[1] = VecInt(3, 1)
    /\ Len(current_path(sink)) = 3

\* this step is a close() call in TextRenderingTests mode
CloseInTests ==
    /\ IsTests(sink.mode)
    /\ Len(calls') = Len(calls) + 1
    /\ calls'[Len(calls')].op = "close"

\* C25: in TextRenderingTests mode a close() removes from the path of the
\* current symbol at most the one line-to that was the call immediately
\* before it: either it only appends Z, or the call before it was a line_to
\* and it replaces the L command at the end of the path by Z.  It never
\* removes an earlier command, nor the Z of a contour already closed.
C25_CloseRemovesOnlyPrecedingLine ==
    [][CloseInTests =>
        LET path == current_path(sink)
            z == Token("Z", <<>>)
        IN  \/ current_path(sink') = Append(path, z)
            \/ /\ Len(calls) >= 1
               /\ calls[Len(calls)].op = "line_to"
               /\ Len(path) >= 1
               /\ path[Len(path)].op = "L"
               /\ current_path(sink') = Append(SubSeq(path, 1, Len(path) - 1), z)]_vars

--------------------------------------------------------------------------
(* Claims about glyphs_to_svg *)

\* the glyph indices of the run in the order the loop iterates them
GidsInOrder ==
    LET order == IterOrder(Len(w_infos), w_direction)
    IN  [k \in 1..Len(w_infos) |-> At(w_infos, order[k]).glyph_index]

\* a sequence with every repetition of an earlier element removed
RECURSIVE FirstOccurrences(_)
FirstOccurrences(s) ==
    IF s = <<>> THEN <<>>
    ELSE LET front == SubSeq(s, 1, Len(s) - 1)
             last == s[Len(s)]
         IN  IF \E k \in 1..Len(front) : front[k] = last
             THEN FirstOccurrences(front)
             ELSE Append(FirstOccurrences(front), last)

Elements(doc, name) == SelectSeq(doc.children, LAMBDA e : e.name = name)
AttrValue(element, key) ==
    LET k == CHOOSE j \in 1..Len(element.attrs) : element.attrs[j][1] = key
    IN  element.attrs[k][2]

WriterLooping == w_pc \in {"loop", "end"}
WriterSucceeded == w_pc = "done" /\ svg.tag = "Ok"

\* C5: glyphs_to_svg emits one <symbol> per distinct glyph index and one <use>
\* per glyph, and calls visit once per distinct glyph index, on its first
\* occurrence in iteration order; a repeated glyph index only adds a <use>.
C5_OneSymbolPerGlyphIndex ==
    /\ (WriterLooping \/ WriterSucceeded) =>
          LET processed == SubSeq(GidsInOrder, 1, Len(w_infos) - Len(iter))
          IN  /\ visited = FirstOccurrences(processed)
              /\ [k \in 1..Len(sink.symbols) |-> sink.symbols[k].info.glyph_index]
                    = visited
              /\ Len(writer.usage) = Len(processed)
              /\ \A k \in 1..Len(processed) :
                    At(sink.symbols, writer.usage[k][1]).info.glyph_index
                        = processed[k]
    /\ WriterSucceeded =>
          LET doc == Unwrap(svg.value)
              symbol_elements == Elements(doc, "symbol")
              use_elements == Elements(doc, "use")
          IN  /\ Len(symbol_elements)
                    = Cardinality({GidsInOrder[k] : k \in 1..Len(w_infos)})
              /\ Len(use_elements) = Len(w_infos)
              /\ \A k \in 1..Len(w_infos) :
                    \E j \in 1..Len(symbol_elements) :
                        /\ sink.symbols[j].info.glyph_index = GidsInOrder[k]
                        /\ AttrValue(use_elements[k], "xlink:href").s
                              = "#" \o AttrValue(symbol_elements[j], "id").s

C5_Witness ==
    /\ WriterSucceeded
    /\ Len(w_infos) = 3
    /\ GidsInOrder = <<1, 1, 2>>
    /\ visited = <<1, 2>>
    /\ Len(Elements(Unwrap(svg.value), "symbol")) = 2
    /\ Len(Elements(Unwrap(svg.value), "use")) = 3

\* the place in iteration order of the first glyph whose outline fails
FailingPlace ==
    CHOOSE p \in 1..Len(w_infos) :
        /\ Some(GidsInOrder[p]) = builder.failing
        /\ \A q \in 1..(p - 1) : Some(GidsInOrder[q]) # builder.failing

\* C10: when visit returns an error for a glyph, glyphs_to_svg returns Err at
\* that glyph: no SVG is returned and no later glyph is named, visited or
\* placed.
C10_VisitErrorAborts ==
    (\E k \in 1..Len(visited) : Some(visited[k]) = builder.failing) =>
        LET upto == SubSeq(GidsInOrder, 1, FailingPlace)
        IN  /\ w_pc = "done"
            /\ svg.tag = "Err"
            /\ svg.value = None
            /\ visited = FirstOccurrences(upto)
            /\ named = FirstOccurrences(upto)
            /\ Len(writer.usage) = FailingPlace - 1
            /\ Len(sink.symbols) = Len(visited)

C10_Witness ==
    /\ w_pc = "done"
    /\ svg = Err("error building SVG: outline")
    /\ builder.failing = Some(1)
    /\ GidsInOrder = <<3, 1, 2>>
    /\ visited = <<3, 1>>
    /\ Len(writer.usage) = 1

\* C7 as stated: the second call on the same arguments returns the same SVG
\* as the first, in both modes.
C7_SameSvgTwice ==
    (call_no = 2 /\ w_pc = "done") => svg = first_svg

\* where glyph k comes in the iteration order, and the point passed to
\* use_glyph for it, transformed
PlaceOf(k) == IF w_direction = LeftToRight THEN k + 1 ELSE Len(w_infos) - k
Placed(k) == writer.usage[PlaceOf(k)][2]
VecAdd(a, b) == Vec(RatAdd(a.x, b.x), RatAdd(a.y, b.y))
WriterFirstPass == FirstPassResult(w_infos, FALSE).positions
WriterIndices == 0..(Len(w_infos) - 1)

\* the first-pass anchor offset of mark k, transformed
AnchorOffset(k) ==
    Apply(writer.transform,
          VecInt(At(WriterFirstPass, k).x_offset, At(WriterFirstPass, k).y_offset))

\* C11 as stated: a MarkAnchor mark is placed at the point its base is placed
\* at plus the first-pass anchor offset, in both directions and whatever the
\* advances of the glyphs between them.
C11_MarkPlacedOnBase ==
    w_pc = "end" =>
        \A k \in WriterIndices :
            LET att == At(w_infos, k).attachment
            IN  (att.tag = "MarkAnchor" /\ att.index # k) =>
                    Placed(k) = VecAdd(Placed(att.index), AnchorOffset(k))

\* the glyph visited in place p of the walk, places counted from 1, and the
\* pen when the walk reaches place p: the advances of the glyphs visited in
\* the places before it
VisitedAt(p) == IF w_direction = LeftToRight THEN p - 1 ELSE Len(w_infos) - p
RECURSIVE PenAt(_)
PenAt(p) ==
    IF p <= 1 THEN <<0, 0>>
    ELSE LET before == PenAt(p - 1)
             pos == At(glyph_positions, VisitedAt(p - 1))
         IN  <<before[1] + pos.hori_advance, before[2] + pos.vert_advance>>

\* C20: the glyphs are placed in index order for LeftToRight and in reversed
\* index order for RightToLeft; the placement in place p is the transform of
\* the pen at place p plus the offset of the position with the index of the
\* glyph visited there, and the pen has then moved on by the advance of
\* every glyph placed so far, marks included.
C20_PlacementsFollowPen ==
    w_pc \in {"loop", "end"} =>
        /\ Len(writer.usage) = Len(w_infos) - Len(iter)
        /\ \A p \in 1..Len(writer.usage) :
              LET k == VisitedAt(p)
                  pos == At(glyph_positions, k)
              IN  /\ MapGet(symbol_map, At(w_infos, k).glyph_index) =
                        Some(writer.usage[p][1])
                  /\ writer.usage[p][2] =
                        Apply(writer.transform,
                              VecInt(PenAt(p)[1] + pos.x_offset,
                                     PenAt(p)[2] + pos.y_offset))
        /\ pen_x = PenAt(Len(writer.usage) + 1)[1]
        /\ pen_y = PenAt(Len(writer.usage) + 1)[2]

\* a RightToLeft run of three glyphs with a mark in the middle, all placed
\* under the flipped half-size transform
C20_Witness ==
    /\ w_pc = "end"
    /\ w_direction = RightToLeft
    /\ Len(w_infos) = 3
    /\ Len(writer.usage) = 3
    /\ At(w_infos, 1).attachment.tag = "MarkAnchor"
    /\ At(glyph_positions, 1).hori_advance # 0
    /\ At(glyph_positions, 2).hori_advance # 0
    /\ IsFlipped(writer.transform)
    /\ writer.usage[3][2] =
          Apply(writer.transform,
                VecInt(At(glyph_positions, 2).hori_advance
                           + At(glyph_positions, 1).hori_advance
                           + At(glyph_positions, 0).x_offset,
                       At(glyph_positions, 0).y_offset))

\* the id under which the symbol of a glyph index is written
SymbolIdOf(glyph_index) ==
    LET looked_up == gid_to_glyph_name(builder, glyph_index)
        glyph_name == IF IsSome(looked_up) THEN Unwrap(looked_up)
                      ELSE "gid" \o ToString(glyph_index)
    IN  IF IsTests(writer.mode) THEN writer.mode.id_prefix \o "." \o glyph_name
        ELSE glyph_name

\* the names of the children of the document, in writing order
ChildNames(doc) == [k \in 1..Len(doc.children) |-> doc.children[k].name]

\* C21: in the document returned, every <symbol> comes before every <use>;
\* the symbols are those of the glyph indices in order of first occurrence
\* in iteration order, the uses follow the iteration order, and the href of
\* every use is the id of a symbol that was written.
C21_SymbolsThenUses ==
    WriterSucceeded =>
        LET doc == Unwrap(svg.value)
            names == ChildNames(doc)
            symbols_ == Elements(doc, "symbol")
            uses == Elements(doc, "use")
            firsts == FirstOccurrences(GidsInOrder)
        IN  /\ \A a, b \in 1..Len(names) :
                  (names[a] = "symbol" /\ names[b] = "use") => a < b
            /\ Len(symbols_) = Len(firsts)
            /\ \A k \in 1..Len(symbols_) :
                  /\ AttrValue(symbols_[k], "id") = Str(SymbolIdOf(firsts[k]))
                  /\ ~IsTests(writer.mode) =>
                        AttrValue(symbols_[k], "data-glyph-index")
                            = Str(ToString(firsts[k]))
            /\ Len(uses) = Len(GidsInOrder)
            /\ \A k \in 1..Len(uses) :
                  /\ AttrValue(uses[k], "xlink:href")
                        = Str("#" \o SymbolIdOf(GidsInOrder[k]))
                  /\ \E j \in 1..Len(symbols_) :
                        AttrValue(uses[k], "xlink:href")
                            = Str("#" \o AttrValue(symbols_[j], "id").s)

\* a RightToLeft document with a background rectangle, two symbols and
\* three uses, the last of them referring to the second symbol
C21_Witness ==
    /\ WriterSucceeded
    /\ w_direction = RightToLeft
    /\ IsSome(bg_colour(writer))
    /\ ChildNames(Unwrap(svg.value)) =
          <<"rect", "symbol", "symbol", "use", "use", "use">>
    /\ AttrValue(Elements(Unwrap(svg.value), "use")[3], "xlink:href")
          = Str("#" \o AttrValue(Elements(Unwrap(svg.value), "symbol")[2], "id").s)

\* C26: in the document returned, the symbols of distinct glyph indices have
\* distinct ids, and the href of every use names the symbol of the glyph
\* index that use was written for and no other symbol.
C26_DistinctSymbolIds ==
    WriterSucceeded =>
        LET doc == Unwrap(svg.value)
            symbols_ == Elements(doc, "symbol")
            uses == Elements(doc, "use")
            firsts == FirstOccurrences(GidsInOrder)
        IN  /\ \A a, b \in 1..Len(symbols_) :
                  a # b => AttrValue(symbols_[a], "id") # AttrValue(symbols_[b], "id")
            /\ \A k \in 1..Len(uses), j \in 1..Len(symbols_) :
                  AttrValue(uses[k], "xlink:href")
                        = Str("#" \o AttrValue(symbols_[j], "id").s)
                    => firsts[j] = GidsInOrder[k]

====
